---- MODULE Spec2Model ----
(***************************************************************************)
(* Audio rug: the recording-trigger state machine and the voice / effect   *)
(* routing of AudioRugApp (src/script.js) and AudioEngine                  *)
(* (src/audio-engine.js).                                                  *)
(*                                                                         *)
(* JavaScript runs one handler at a time; an async function runs up to its *)
(* first await, and its continuation runs later as a step of its own.      *)
(* Every action below is one such step: a whole event handler or timer     *)
(* callback up to the awaits it reaches, or the continuation of one        *)
(* awaited call together with the callers it resumes.                      *)
(*                                                                         *)
(* SpecRec   the recording trigger in isolation: frames arrive in RECORD   *)
(*           mode, the record button, the microphone selector, the         *)
(*           sensitivity slider and the mode buttons are used.             *)
(* SpecAudio the voices and effects in isolation: a sample has been        *)
(*           recorded, grid cells are pressed with the mouse, effects are  *)
(*           toggled and reset, the mode buttons are used.                 *)
(* SpecGrid   the region aggregator and debouncer in isolation: frames     *)
(*           arrive in PERFORM mode before any sample is recorded, time    *)
(*           passes, debounce timeouts fire, the mouse, the sensitivity    *)
(*           slider and the mode buttons are used.                         *)
(* SpecSerial the serial decoder in isolation: chunks of text arrive on an  *)
(*           open connection.                                              *)
(* SpecLink  the serial connection: the port is connected and              *)
(*           disconnected, a few chunks arrive, the read and the pipe fail.*)
(* SpecMode  mode changes with voices and the debouncer together.          *)
(* SpecPerf  the performance recorder: the record button is clicked while  *)
(*           cells are pressed and released with the mouse.                *)
(* SpecParams the effect parameters: sliders are moved, parameters are     *)
(*           read and reset.                                               *)
(* SpecHold  SpecRec at one threshold, with the mat's hold followed.       *)
(* SpecSettle SpecMode with the settling after the last frame followed.    *)
(* SpecChunk the serial decoder fed one stream in pieces.                  *)
(* SpecRecFair, SpecLinkFair, SpecPerfFair and SpecSettle add the weak     *)
(* fairness of the completions and timers their liveness claims rest on.   *)
(* The first three share switchMode; none writes a variable another's      *)
(* claims read, except samples, which SpecAudio starts at one recorded     *)
(* sample.                                                                 *)
(***************************************************************************)
EXTENDS Integers, Sequences, FiniteSets, TLC

\* ------------------------------------------------------------- bounds
\* Voice starts awaiting their decode plus restart timers, in total.
MaxPending == 2
\* Started sources the registry has lost track of, in total.
MaxOrphans == 1
\* In-flight startRecording / stopRecording calls and cooldown timers, each.
MaxCalls == 1
\* Samples kept in the sample list.
MaxSamples == 1
\* Timeouts the runtime holds for one region.
MaxTimeouts == 2
\* Consecutive flickering frames the observer counts.
MaxFlicker == 3
\* Characters the read buffer may hold back.
MaxBuffer == 220
\* Frames the observer of the decoder counts.
MaxFrames == 2
\* Calls of the engine's startPerformanceRecording, made or on their way.
MaxCaptures == 2
MaxChunks == 3

\* --------------------------------------------------- program constants
NumSensors == 100
DefaultThreshold == 25
pressureDebounceMs == 50
\* stopRecording keeps a blob of more than 100 bytes and more than 0.1 s.
MinBlobSize == 100
MinDurationMs == 100
\* Time passes in steps of half a debounce window.
TickMs == pressureDebounceMs \div 2

\* Two of the nine grid regions (all nine are handled alike).
Regions == {0, 1}
Sensors == 0 .. (NumSensors - 1)

\* Two of the six effects of createWebAudioEffects.
Effects == {"ringmod", "vibrato"}
\* effectName === null: the dry-only routing.
NullEffect == "null"
\* No entry in a Map.
NoVoice == "none"
EffectArgs == Effects \cup {NullEffect}

\* cell.dataset.effect of a grid cell: cells 0 and 1 share an effect.
CellEffect(r) == IF r < 2 THEN "ringmod" ELSE "vibrato"

VARIABLES
    \* AudioRugApp
    currentMode,            \* 'RECORD' | 'PERFORM'
    recordingState,         \* 'idle' | 'recording'
    isRecordingOnCooldown,
    recordingReady,
    lastPressureState,
    pressureThreshold,
    micSelected,            \* microphoneSelect.value is non-empty
    samples,                \* samples.length
    effectsEnabled,
    activeSampleSources,    \* region -> has an entry
    mousePressed,           \* cell.dataset.mousePressed === 'true'
    gridCellPressureState,
    gridCellDebounceTimers, \* region -> "null" | "pending" | "fired": the handle kept
    timeouts,               \* region -> the runtime's pending debounce timeouts, oldest
                            \*           first, each [isPressed, age]
    \* pending asynchronous work
    startCalls,             \* startRecording calls awaiting device capture
    stopCalls,              \* stopRecording calls awaiting the blob, by kind
    cooldownTimers,         \* cooldown timeouts not yet fired
    decoding,               \* <<region, effectName>> -> voice starts awaiting decode
    restartTimers,          \* region -> toggleEffects restart timeouts
    \* AudioEngine
    mediaRecorder,          \* "null" | "recording" | "inactive"
    activeLoopedSources,    \* region -> NoVoice | effectName of its Voice
    orphanSources,          \* region -> started sources with no registry entry
    effectActive,           \* webAudioEffects[e].active
    nodesConnected,         \* webAudioEffects[e].nodes are connected into the bus
    \* observers (not program state)
    lastOp,                 \* the step just taken and what it saw before it
    scn,                    \* progress through [unpressed, pressed, unpressed, pressed]
    scnMid,                 \* recordingState after the scenario's successive frames
    lastFrame,              \* index of the last frame the aggregator handled
    frameThreshold,         \* the threshold that frame was evaluated with
    sinceFrame,             \* ms since that frame arrived, up to the debounce window
    flicker,                \* region -> frames in a row, each within the window of
                            \*           the one before and alternating for the region
    debounceEvent,          \* the transition the debounce evaluation just emitted
    frameLog,               \* what the last frame's forEach did, in order
    staleStops,             \* kind -> stopRecording calls in flight that are not the latest
    timerOwners,            \* the pending cooldown timeouts, oldest first: "latest" for
                            \*   the one of the latest stopRecording call, else "earlier"
    hold,                   \* the mat as the RECORD frames show it: "up" | "down" |
                            \*   "downOnCooldown" (pressed since a press that began on
                            \*   cooldown) | "downOnCooldownDisturbed" (the same, with
                            \*   a button click or mode switch since); "untracked"
                            \*   in the specifications that do not follow it
    settle,                 \* [on, quiet, events]: when followed (on), whether nothing
                            \*   but time, timeouts and decodes happened since the last
                            \*   PERFORM frame, and region -> transitions since then
    \* SerialHandler
    readBuffer,             \* the held-back text, a sequence of characters
    port,                   \* "null" | "open"
    reader,                 \* "null" | "reader"
    isConnected,
    keepReading,
    \* the platform objects and promises of SerialHandler
    readerLocked,           \* the decoder stream's readable is locked to a reader
    readLoop,               \* startReading: "idle" | "awaitRead" | "cancelled" | "returned"
    pipe,                   \* the pipeTo promise: "none" | "piping" | "closed" | "rejected"
    disconnectPc,           \* disconnect(): "none" | "awaitCancel" | "awaitClose"
    \* AudioRugApp.handleConnectionChange
    statusText,             \* 'Connected' | 'Disconnected'
    \* observers of the decoder
    parseLog,               \* the parseSerialData calls of the last chunk, in order:
                            \*   [line, emitted] with the frames given to onDataReceived
    frameCount,             \* frames given to onDataReceived so far, up to MaxFrames
    lastChunk,              \* the chunk the read loop handed over last
    stream,                 \* [on, n, fed, emitted]: when followed (on), the number of
                            \*   chunks handed over, their concatenation, and the parse
                            \*   calls made for them, in order
    \* AudioRugApp: performance recording
    isPerformanceRecording,
    performanceRecordingPromise, \* 0 (undefined) or the engine call whose promise it is
    performanceRecordingBlob,    \* 0 (null) or the engine call whose blob it is
    perfStarts,             \* startPerformanceRecording calls awaiting audioContext.resume()
    perfStops,              \* the promises stopPerformanceRecording calls await
    \* AudioEngine: performance recording
    performanceRecorder,    \* 0 (null) or the engine call that created it
    captures,               \* per engine call: [recorder, promise, blobs]
                            \*   recorder: "none" | "recording" | "inactive" (MediaRecorder.state)
                            \*   promise:  "pending" | "resolved" | "rejected"
                            \*   blobs:    blobs the promise was resolved with
    \* AudioEngine: effect parameters
    effectParams,           \* effect -> parameter -> value of the node's AudioParam, x 1000
    paramResult             \* the last get / set call: [op, effect, param, ok, value]

recVars == <<recordingState, isRecordingOnCooldown, recordingReady, lastPressureState,
             pressureThreshold, micSelected, samples, startCalls, stopCalls,
             cooldownTimers, mediaRecorder>>
gridVars == <<gridCellPressureState, gridCellDebounceTimers, timeouts>>
appAudioVars == <<effectsEnabled, activeSampleSources, mousePressed, decoding, restartTimers>>
engineVars == <<activeLoopedSources, orphanSources, effectActive, nodesConnected>>
gridObsVars == <<lastFrame, frameThreshold, sinceFrame, frameLog>>
stopObsVars == <<staleStops, timerOwners>>
obsVars == <<lastOp, scn, scnMid, gridObsVars, flicker, debounceEvent, stopObsVars, hold,
             settle>>
decoderVars == <<readBuffer, parseLog, frameCount, lastChunk, stream>>
linkVars == <<port, reader, isConnected, keepReading, readerLocked, readLoop, pipe,
              disconnectPc, statusText>>
serialVars == <<decoderVars, linkVars>>
appVars == <<currentMode, recVars, gridVars, appAudioVars, engineVars, obsVars>>
perfVars == <<isPerformanceRecording, performanceRecordingPromise, performanceRecordingBlob,
              perfStarts, perfStops, performanceRecorder, captures>>
paramVars == <<effectParams, paramResult>>
vars == <<appVars, serialVars, perfVars, paramVars>>

\* ------------------------------------------------------------ helpers
RECURSIVE SumTo(_, _)
SumTo(f, n) == IF n = 0 THEN 0 ELSE f[n - 1] + SumTo(f, n - 1)

RECURSIVE SumOver(_, _)
SumOver(f, S) ==
    IF S = {} THEN 0
    ELSE LET x == CHOOSE y \in S : TRUE IN f[x] + SumOver(f, S \ {x})

CallKinds == Regions \X EffectArgs
PendingTotal == SumOver(decoding, CallKinds) + SumOver(restartTimers, Regions)

\* =================================================== AudioEngine (pure)
\* The engine state as one record, so that handlers can be composed.
Eng == [sources |-> activeLoopedSources, orphans |-> orphanSources,
        active |-> effectActive, connected |-> nodesConnected]

SetEng(e) ==
    /\ activeLoopedSources' = e.sources
    /\ orphanSources' = e.orphans
    /\ effectActive' = e.active
    /\ nodesConnected' = e.connected

\* applyEffect(effectName, isActive)
applyEffect(e, effectName, isActive) ==
    IF effectName \notin Effects THEN e
    ELSE IF isActive /\ ~e.active[effectName]
         THEN [e EXCEPT !.connected[effectName] = TRUE, !.active[effectName] = TRUE]
    ELSE IF ~isActive /\ e.active[effectName]
         THEN [e EXCEPT !.connected[effectName] = FALSE, !.active[effectName] = FALSE]
    ELSE e

\* The count stopLoopedSampleWithEffect takes before it deletes the entry.
othersUsingEffect(e, effectName) ==
    Cardinality({r \in Regions : e.sources[r] = effectName})

\* A deactivation test that is off by one the other way.
keepsEffectOffByOne(n) == ~(n <= 2)

\* The test on that count that decides the deactivation.
keepsEffect(n) == ~(n <= 1)

\* stopLoopedSampleWithEffect(gridIndex)
\* stopLoopedSampleWithEffect(gridIndex) without the has() test: a region
\* with no Voice is treated as one playing through its cell's effect.
stopLoopedSampleUnguarded(e, gridIndex) ==
    LET effectName == IF e.sources[gridIndex] # NoVoice
                      THEN e.sources[gridIndex]
                      ELSE CellEffect(gridIndex)
        e1 == IF keepsEffect(othersUsingEffect(e, effectName))
              THEN e
              ELSE applyEffect(e, effectName, FALSE)
    IN [e1 EXCEPT !.sources[gridIndex] = NoVoice]

stopLoopedSampleWithEffect(e, gridIndex) ==
    IF e.sources[gridIndex] # NoVoice
    THEN LET effectName == e.sources[gridIndex]
             e1 == IF keepsEffect(othersUsingEffect(e, effectName))
                   THEN e
                   ELSE applyEffect(e, effectName, FALSE)
         IN [e1 EXCEPT !.sources[gridIndex] = NoVoice]
    ELSE e

\* startLoopedSampleWithEffect, up to its first await.
startLoopedBegin(e, gridIndex) ==
    IF e.sources[gridIndex] # NoVoice
    THEN stopLoopedSampleWithEffect(e, gridIndex)
    ELSE e

\* startLoopedSampleWithEffect after a successful decode: the source is
\* started and set() replaces whatever entry the region has by then.
startLoopedSucceed(e, gridIndex, effectName) ==
    LET e1 == IF effectName = NullEffect THEN e ELSE applyEffect(e, effectName, TRUE)
        lost == IF e1.sources[gridIndex] # NoVoice THEN 1 ELSE 0
    IN [e1 EXCEPT !.sources[gridIndex] = effectName,
                  !.orphans[gridIndex] = @ + lost]

\* startLoopedSampleWithEffect's catch block (the decode rejected).
startLoopedFail(e, effectName) ==
    IF effectName # NullEffect THEN applyEffect(e, effectName, FALSE) ELSE e

\* resetAllEffectParameters: every effect's nodes are replaced by a fresh
\* graph that nothing is connected to; the active flag is left as it was.
resetAllEffectParameters(e) ==
    [e EXCEPT !.connected = [x \in Effects |-> FALSE]]

\* Stop the engine Voice of every region of S (forEach over a Map's keys).
RECURSIVE stopAll(_, _)
stopAll(e, S) ==
    IF S = {} THEN e
    ELSE LET r == CHOOSE x \in S : \A y \in S : x <= y
         IN stopAll(stopLoopedSampleWithEffect(e, r), S \ {r})


\* -------------------------------------------------- effect parameters
\* webAudioEffects: names that are not effects are looked up too.
EffectNames == Effects \cup {"reverb"}
\* The parameters getEffectParameter and setEffectParameter know.
Params(effectName) ==
    IF effectName = "ringmod" THEN {"frequency", "depth", "output"}
    ELSE IF effectName = "vibrato" THEN {"rate", "depth", "output"}
    ELSE {}
ParamIds == {"frequency", "rate", "depth", "output", "mix"}
\* Slider values, in thousandths.
ParamValues == {0, 250}
\* createEffectNodes: the values of the AudioParams, in thousandths.
DefaultParams ==
    [e \in Effects |->
        IF e = "ringmod"
        THEN [p \in Params(e) |-> IF p = "frequency" THEN 30000
                                  ELSE IF p = "depth" THEN 0 ELSE 500]
        ELSE [p \in Params(e) |-> IF p = "rate" THEN 5000
                                  ELSE IF p = "depth" THEN 5 ELSE 1000]]

\* getEffectParameter(effectName, paramId): the value returned.
getEffectParameter(params, effectName, paramId) ==
    IF effectName \notin Effects THEN 0
    ELSE IF paramId \in Params(effectName) THEN params[effectName][paramId]
    ELSE 0

\* setEffectParameter(effectName, paramId, value): the parameters and the
\* value returned.
setEffectParameter(params, effectName, paramId, value) ==
    IF effectName \notin Effects THEN [params |-> params, ok |-> FALSE]
    ELSE IF paramId \in Params(effectName)
    THEN [params |-> [params EXCEPT ![effectName][paramId] = value], ok |-> TRUE]
    ELSE [params |-> params, ok |-> TRUE]

\* A slider is moved, or setEffectParameter is called with other names.
SetEffectParameter(effectName, paramId, value) ==
    /\ \E r \in {setEffectParameter(effectParams, effectName, paramId, value)} :
          /\ effectParams' = r.params
          /\ paramResult' = [op |-> "set", effect |-> effectName, param |-> paramId,
                             ok |-> r.ok, value |-> value]
    /\ UNCHANGED <<appVars, serialVars, perfVars>>

\* A parameter is read for display.
GetEffectParameter(effectName, paramId) ==
    /\ paramResult' = [op |-> "get", effect |-> effectName, param |-> paramId, ok |-> TRUE,
                       value |-> getEffectParameter(effectParams, effectName, paramId)]
    /\ UNCHANGED <<appVars, serialVars, perfVars, effectParams>>

\* ================================================ AudioRugApp: voices
\* The effect a start passes to the engine (script.js:899).
effectArg(r) == IF effectsEnabled THEN CellEffect(r) ELSE NullEffect

\* samples[sampleIndex] exists for every cell once a sample is recorded
\* (updateGridSampleTitles keeps data-sample below samples.length).
hasSample == samples >= 1

\* What a step records about itself for the observers.
Op(name, arg, voice) ==
    [name |-> name, arg |-> arg, rs |-> recordingState, cd |-> isRecordingOnCooldown,
     ready |-> recordingReady, last |-> lastPressureState, voice |-> voice]

NoEvent == [region |-> -1, on |-> FALSE]

\* The steps that can call stopRecording, complete it or fire its timeout.
StopSteps == {"ManualRecordToggle", "SwitchMode", "StopRecordingDone", "CooldownTimerFire"}

\* Which stopRecording call the pending cooldown timeouts belong to. Calls
\* of one kind complete in the order they were made, and the timeouts,
\* all of recordingCooldownMs, fire in the order they were scheduled.
ObserveStops ==
    LET before == stopCalls["blob"] + stopCalls["nodata"]
        after == stopCalls'["blob"] + stopCalls'["nodata"]
    IN IF after > before
       THEN /\ staleStops' = stopCalls
            /\ timerOwners' = [i \in 1 .. Len(timerOwners) |-> "earlier"]
       ELSE IF after < before
       THEN \E k \in {"blob", "nodata"} :
               /\ stopCalls'[k] < stopCalls[k]
               /\ IF staleStops[k] > 0
                  THEN /\ staleStops' = [staleStops EXCEPT ![k] = @ - 1]
                       /\ timerOwners' = Append(timerOwners, "earlier")
                  ELSE /\ timerOwners' = Append(timerOwners, "latest")
                       /\ UNCHANGED staleStops
       ELSE IF cooldownTimers' < cooldownTimers
       THEN /\ timerOwners' = Tail(timerOwners)
            /\ UNCHANGED staleStops
       ELSE UNCHANGED stopObsVars

ObserveCore(name, arg, voice) ==
    /\ lastOp' = Op(name, arg, voice)
    /\ IF name \in StopSteps THEN ObserveStops ELSE UNCHANGED stopObsVars
    /\ hold' = IF name \in {"ManualRecordToggle", "SwitchMode"} /\ hold = "downOnCooldown"
               THEN "downOnCooldownDisturbed"
               ELSE hold
    /\ settle' = IF settle.on /\ name = "SwitchMode"
                 THEN [settle EXCEPT !.quiet = FALSE]
                 ELSE settle
    /\ scn' = 0
    /\ scnMid' = "idle"
    /\ flicker' = [r \in Regions |-> 0]
    /\ debounceEvent' = NoEvent
    /\ UNCHANGED <<gridObsVars, serialVars>>
ObserveApp(name, arg, voice) == ObserveCore(name, arg, voice) /\ UNCHANGED paramVars
Observe(name, arg, voice) == ObserveApp(name, arg, voice) /\ UNCHANGED perfVars

\* The voice steps are not told apart, except a release that finds a
\* Voice registered for its region: it records that Voice's effect.
ObserveAudio == Observe("voice", -1, NoVoice)
ObserveStop(voice) == Observe(IF voice = NoVoice THEN "voice" ELSE "stop", -1, voice)
\* A release of a tracked region whose Voice is gone from the engine's
\* registry is told apart too: it records the region.
ObserveRelease(r) ==
    IF activeSampleSources[r] /\ activeLoopedSources[r] = NoVoice
    THEN Observe("stopNoVoice", r, NoVoice)
    ELSE ObserveStop(activeLoopedSources[r])

\* startSampleWithEffect up to its await: the new state of
\* <<engine, decoding>>.
startSampleWithEffect(e, dec, act, r) ==
    IF ~hasSample \/ act[r]
    THEN <<e, dec>>
    ELSE <<startLoopedBegin(e, r),
           [dec EXCEPT ![<<r, effectArg(r)>>] = @ + 1]>>

\* stopSampleWithEffect: the new state of <<engine, activeSampleSources>>.
stopSampleWithEffect(e, act, r) ==
    IF act[r]
    THEN <<stopLoopedSampleWithEffect(e, r), [act EXCEPT ![r] = FALSE]>>
    ELSE <<e, act>>

\* handleGridCellPressureChange(gridIndex, isPressed, pressure)
handleGridCellPressureChange(r, isPressed) ==
    IF currentMode # "PERFORM"
    THEN /\ SetEng(Eng)
         /\ UNCHANGED <<decoding, activeSampleSources>>
    ELSE IF isPressed
    THEN LET st == startSampleWithEffect(Eng, decoding, activeSampleSources, r)
         IN /\ SetEng(st[1])
            /\ decoding' = st[2]
            /\ UNCHANGED activeSampleSources
    ELSE LET st == stopSampleWithEffect(Eng, activeSampleSources, r)
         IN /\ SetEng(st[1])
            /\ activeSampleSources' = st[2]
            /\ UNCHANGED decoding

\* mousedown on a grid cell (setupGrid).
MouseDown(r) ==
    /\ currentMode = "PERFORM"
    /\ handleGridCellPressureChange(r, TRUE)
    /\ mousePressed' = [mousePressed EXCEPT ![r] = TRUE]
    /\ ObserveAudio
    /\ UNCHANGED <<currentMode, recVars, gridVars, effectsEnabled, restartTimers>>
    /\ PendingTotal' <= MaxPending

\* mouseup or mouseleave on a grid cell (setupGrid).
MouseUp(r) ==
    /\ currentMode = "PERFORM"
    /\ mousePressed[r]
    /\ handleGridCellPressureChange(r, FALSE)
    /\ mousePressed' = [mousePressed EXCEPT ![r] = FALSE]
    /\ ObserveRelease(r)
    /\ UNCHANGED <<currentMode, recVars, gridVars, effectsEnabled, restartTimers>>

\* The decode of a pending voice start resolves: the engine installs the
\* Voice and startSampleWithEffect records it.
VoiceStarted(r, effectName) ==
    /\ decoding[<<r, effectName>>] > 0
    /\ LET e == startLoopedSucceed(Eng, r, effectName)
       IN /\ SumOver(e.orphans, Regions) <= MaxOrphans
          /\ SetEng(e)
    /\ decoding' = [decoding EXCEPT ![<<r, effectName>>] = @ - 1]
    /\ activeSampleSources' = [activeSampleSources EXCEPT ![r] = TRUE]
    /\ ObserveAudio
    /\ UNCHANGED <<currentMode, recVars, gridVars, effectsEnabled, mousePressed, restartTimers>>

\* The decode of a pending voice start rejects: the engine's catch block
\* runs and returns false, then startSampleWithEffect's catch block stops
\* the region's engine Voice ("ensure cleanup").
VoiceStartFailed(r, effectName) ==
    /\ decoding[<<r, effectName>>] > 0
    /\ SetEng(stopLoopedSampleWithEffect(startLoopedFail(Eng, effectName), r))
    /\ decoding' = [decoding EXCEPT ![<<r, effectName>>] = @ - 1]
    /\ ObserveAudio
    /\ UNCHANGED <<currentMode, recVars, gridVars, effectsEnabled, activeSampleSources,
                   mousePressed, restartTimers>>

\* toggleEffects: every tracked cell is stopped and a restart is scheduled.
ToggleEffects ==
    LET activeCells == {r \in Regions : activeSampleSources[r]}
    IN /\ effectsEnabled' = ~effectsEnabled
       /\ SetEng(stopAll(Eng, activeCells))
       /\ activeSampleSources' = [r \in Regions |-> FALSE]
       /\ restartTimers' = [r \in Regions |->
                               restartTimers[r] + (IF r \in activeCells THEN 1 ELSE 0)]
       /\ ObserveAudio
       /\ UNCHANGED <<currentMode, recVars, gridVars, mousePressed, decoding>>
       /\ PendingTotal' <= MaxPending

\* The 50 ms restart timeout of toggleEffects fires.
RestartTimerFire(r) ==
    /\ restartTimers[r] > 0
    /\ LET st == startSampleWithEffect(Eng, decoding, activeSampleSources, r)
       IN /\ SetEng(st[1])
          /\ decoding' = st[2]
    /\ restartTimers' = [restartTimers EXCEPT ![r] = @ - 1]
    /\ ObserveAudio
    /\ UNCHANGED <<currentMode, recVars, gridVars, effectsEnabled, activeSampleSources,
                   mousePressed>>

\* resetAllEffects, confirmed by the user.
ResetAllEffects ==
    /\ SetEng(resetAllEffectParameters(Eng))
    /\ effectParams' = DefaultParams
    /\ ObserveCore("voice", -1, NoVoice)
    /\ UNCHANGED <<perfVars, paramResult>>
    /\ UNCHANGED <<currentMode, recVars, gridVars, appAudioVars>>


\* ============================================ AudioRugApp: recording
\* The recording trigger's state as one record, so that handlers compose.
Rec == [rs |-> recordingState, cd |-> isRecordingOnCooldown, ready |-> recordingReady,
        last |-> lastPressureState, start |-> startCalls, stop |-> stopCalls,
        rec |-> mediaRecorder]

SetRec(x) ==
    /\ recordingState' = x.rs
    /\ isRecordingOnCooldown' = x.cd
    /\ recordingReady' = x.ready
    /\ lastPressureState' = x.last
    /\ startCalls' = x.start
    /\ stopCalls' = x.stop
    /\ mediaRecorder' = x.rec

StopKinds == {"blob", "nodata"}
WithinCalls(x) == x.start <= MaxCalls /\ SumOver(x.stop, StopKinds) <= MaxCalls

\* A start that does not look at microphoneSelect.
startRecordingAnyDevice(x) ==
    IF x.rs # "idle" \/ x.cd THEN x
    ELSE [x EXCEPT !.rs = "recording", !.start = @ + 1]

\* startRecording, up to its await of the device capture.
startRecording(x) ==
    IF x.rs # "idle" \/ x.cd THEN x
    ELSE IF ~micSelected THEN x
    ELSE [x EXCEPT !.rs = "recording", !.start = @ + 1]

\* AudioEngine.stopRecording's executor: an active recorder is stopped and
\* its blob arrives later; otherwise the promise resolves to null.
engineStopRecording(x) ==
    IF x.rec = "recording"
    THEN [x EXCEPT !.rec = "inactive", !.stop["blob"] = @ + 1]
    ELSE [x EXCEPT !.stop["nodata"] = @ + 1]

\* The three assignments stopRecording makes before anything else.
stopRecordingFlags(x) == [x EXCEPT !.rs = "idle", !.cd = TRUE, !.ready = FALSE]

\* stopRecording, up to its await of the engine's blob.
stopRecording(x) ==
    IF x.rs # "recording" THEN x
    ELSE engineStopRecording(stopRecordingFlags(x))

\* totalPressure of handleSerialData and the pressed test of
\* handleRecordingPressure.
totalPressure(frame) == SumTo(frame, NumSensors)

\* A pressed test that counts a total equal to the threshold as pressed.
matPressedInclusive(total, threshold) == total >= threshold

matPressed(total, threshold) == total > threshold

\* An edge test that forgets the ready gate.
risingEdgeUngated(isPressed, last, ready) == isPressed /\ ~last

\* An edge test that fires on the release as well as on the press.
risingEdgeAnyEdge(isPressed, last, ready) == isPressed # last /\ ready

\* An edge test that looks at the level only.
risingEdgeLevel(isPressed, last, ready) == isPressed /\ ready

\* The rising-edge test of handleRecordingPressure.
risingEdge(isPressed, last, ready) == isPressed /\ ~last /\ ready

\* handleRecordingPressure(totalPressure)
handleRecordingPressure(x, total) ==
    LET isPressed == matPressed(total, pressureThreshold)
        x1 == IF ~x.ready /\ ~isPressed THEN [x EXCEPT !.ready = TRUE] ELSE x
        x2 == IF risingEdge(isPressed, x1.last, x1.ready)
              THEN IF x1.rs = "idle" /\ ~x1.cd THEN startRecording(x1)
                   ELSE IF x1.rs = "recording" THEN stopRecording(x1)
                   ELSE x1
              ELSE x1
    IN [x2 EXCEPT !.last = isPressed]

\* Frames the serial decoder can deliver: 100 values in 0..255.
ZeroFrame == [i \in Sensors |-> 0]
OneCell(i, v) == [j \in Sensors |-> IF j = i THEN v ELSE 0]
Spread(v) == [j \in Sensors |-> v]
TestFrames == {ZeroFrame, OneCell(0, 25), OneCell(0, 26), OneCell(99, 255), Spread(1)}
\* What handleSerialData computes from each of them (reduce over the frame).
FrameTotals == {totalPressure(f) : f \in TestFrames}
Thresholds == {DefaultThreshold, 100}

\* The scenario observer: [unpressed from idle and no cooldown, pressed,
\* unpressed, pressed] as successive frames with no other step between.
ObserveFrame(isPressed) ==
    /\ lastOp' = Op("RecordFrame", IF isPressed THEN 1 ELSE 0, NoVoice)
    /\ scn' = IF scn = 1 /\ isPressed THEN 2
              ELSE IF scn = 2 /\ ~isPressed THEN 3
              ELSE IF scn = 3 /\ isPressed THEN 4
              ELSE IF ~isPressed /\ recordingState = "idle" /\ ~isRecordingOnCooldown
                   THEN 1
              ELSE 0
    /\ scnMid' = IF scn = 1 /\ isPressed THEN recordingState'
                 ELSE IF scn \in {2, 3} THEN scnMid
                 ELSE "idle"
    /\ flicker' = [r \in Regions |-> 0]
    /\ debounceEvent' = NoEvent
    /\ hold' = IF hold = "untracked" THEN hold
               ELSE IF ~isPressed THEN "up"
               ELSE IF hold # "up" THEN hold
               ELSE IF isRecordingOnCooldown THEN "downOnCooldown"
               ELSE "down"
    /\ UNCHANGED <<gridObsVars, settle, serialVars, perfVars, paramVars>>

\* handleSerialData in RECORD mode; total is the frame's totalPressure.
RecordFrame(total) ==
    /\ currentMode = "RECORD"
    /\ LET x == handleRecordingPressure(Rec, total)
       IN /\ WithinCalls(x)
          /\ SetRec(x)
    /\ ObserveFrame(matPressed(total, pressureThreshold))
    /\ UNCHANGED <<currentMode, pressureThreshold, micSelected, samples, cooldownTimers,
                   gridVars, appAudioVars, engineVars>>
    /\ ObserveStops

\* A toggle that does not look at the cooldown.
toggleIgnoringCooldown(x) ==
    IF x.rs = "idle" THEN [x EXCEPT !.rs = "recording", !.start = @ + 1]
    ELSE IF x.rs = "recording" THEN stopRecording(x)
    ELSE x

\* A toggle that waits for the ready flag as the mat edge does.
toggleGatedByReady(x) ==
    IF x.cd \/ ~x.ready THEN x
    ELSE IF x.rs = "idle" THEN startRecording(x)
    ELSE IF x.rs = "recording" THEN stopRecording(x)
    ELSE x

\* handleManualRecordToggle (a click on the record button).
handleManualRecordToggle(x) ==
    IF x.cd THEN x
    ELSE IF x.rs = "idle" THEN startRecording(x)
    ELSE IF x.rs = "recording" THEN stopRecording(x)
    ELSE x

ManualRecordToggle ==
    /\ LET x == handleManualRecordToggle(Rec)
       IN /\ WithinCalls(x)
          /\ SetRec(x)
    /\ UNCHANGED <<currentMode, pressureThreshold, micSelected, samples, cooldownTimers,
                   gridVars, appAudioVars, engineVars>>
    /\ Observe("ManualRecordToggle", -1, NoVoice)

\* The device capture awaited by startRecording resolves (the engine's
\* recorder starts) or rejects (startRecording's catch reverts the state).
StartRecordingDone(ok) ==
    /\ startCalls > 0
    /\ startCalls' = startCalls - 1
    /\ IF ok
       THEN /\ mediaRecorder' = "recording"
            /\ UNCHANGED recordingState
       ELSE /\ recordingState' = "idle"
            /\ UNCHANGED mediaRecorder
    /\ Observe("StartRecordingDone", IF ok THEN 1 ELSE 0, NoVoice)
    /\ UNCHANGED <<currentMode, isRecordingOnCooldown, recordingReady, lastPressureState,
                   pressureThreshold, micSelected, samples, stopCalls, cooldownTimers,
                   gridVars, appAudioVars, engineVars>>

\* What the rest of stopRecording can find: the blob's size in bytes, the
\* duration getAudioDuration reports for it in ms (0 when the probe fails),
\* and whether the engine's stop rejects ("stop") or saveSamples throws
\* after the sample was pushed ("save").
TestBlobs ==
    << [size |-> MinBlobSize + 1, duration |-> MinDurationMs + 1, error |-> "none"],
       [size |-> MinBlobSize, duration |-> MinDurationMs + 1, error |-> "none"],
       [size |-> MinBlobSize + 1, duration |-> MinDurationMs, error |-> "none"],
       [size |-> MinBlobSize + 1, duration |-> 0, error |-> "none"],
       [size |-> MinBlobSize + 1, duration |-> MinDurationMs + 1, error |-> "stop"],
       [size |-> MinBlobSize + 1, duration |-> MinDurationMs + 1, error |-> "save"] >>
\* Without a recording recorder the engine resolves to null (blob 0).
BlobIds(kind) == IF kind = "blob" THEN 1 .. Len(TestBlobs) ELSE {0}

\* The tests of stopRecording with the thresholds counted as enough.
pushesSampleInclusive(b) ==
    /\ b # 0
    /\ TestBlobs[b].error # "stop"
    /\ TestBlobs[b].size >= MinBlobSize
    /\ TestBlobs[b].duration >= MinDurationMs

\* stopRecording after the engine's stop settled: whether samples.push is
\* reached.
pushesSample(b) ==
    /\ b # 0
    /\ TestBlobs[b].error # "stop"
    /\ TestBlobs[b].size > MinBlobSize
    /\ TestBlobs[b].duration > MinDurationMs

\* A stopRecording whose cooldown timeout is scheduled at the end of the
\* try block instead of in a finally block: a rejected stop schedules none.
StopRecordingDoneNoFinally(kind, b) ==
    /\ stopCalls[kind] > 0
    /\ b \in BlobIds(kind)
    /\ cooldownTimers < MaxCalls
    /\ stopCalls' = [stopCalls EXCEPT ![kind] = @ - 1]
    /\ IF pushesSample(b)
       THEN /\ samples < MaxSamples
            /\ samples' = samples + 1
       ELSE UNCHANGED samples
    /\ cooldownTimers' = IF b # 0 /\ TestBlobs[b].error # "none"
                         THEN cooldownTimers
                         ELSE cooldownTimers + 1
    /\ UNCHANGED <<currentMode, recordingState, isRecordingOnCooldown, recordingReady,
                   lastPressureState, pressureThreshold, micSelected, startCalls,
                   mediaRecorder, gridVars, appAudioVars, engineVars>>
    /\ Observe("StopRecordingDone", b, NoVoice)

\* The blob awaited by stopRecording arrives: the sample is kept or not,
\* and the finally block schedules the cooldown timeout.
StopRecordingDone(kind, b) ==
    /\ stopCalls[kind] > 0
    /\ b \in BlobIds(kind)
    /\ cooldownTimers < MaxCalls
    /\ stopCalls' = [stopCalls EXCEPT ![kind] = @ - 1]
    /\ IF pushesSample(b)
       THEN /\ samples < MaxSamples
            /\ samples' = samples + 1
       ELSE UNCHANGED samples
    /\ cooldownTimers' = cooldownTimers + 1
    /\ UNCHANGED <<currentMode, recordingState, isRecordingOnCooldown, recordingReady,
                   lastPressureState, pressureThreshold, micSelected, startCalls,
                   mediaRecorder, gridVars, appAudioVars, engineVars>>
    /\ Observe("StopRecordingDone", b, NoVoice)

\* A cooldown timeout scheduled by stopRecording fires.
CooldownTimerFire ==
    /\ cooldownTimers > 0
    /\ cooldownTimers' = cooldownTimers - 1
    /\ isRecordingOnCooldown' = FALSE
    /\ UNCHANGED <<currentMode, recordingState, recordingReady, lastPressureState,
                   pressureThreshold, micSelected, samples, startCalls, stopCalls,
                   mediaRecorder, gridVars, appAudioVars, engineVars>>
    /\ Observe("CooldownTimerFire", -1, NoVoice)

\* The user picks a microphone, or the empty entry, in microphoneSelect.
SelectMicrophone(b) ==
    /\ micSelected' = b
    /\ Observe("SelectMicrophone", -1, NoVoice)
    /\ UNCHANGED <<currentMode, recordingState, isRecordingOnCooldown, recordingReady,
                   lastPressureState, pressureThreshold, samples, startCalls, stopCalls,
                   cooldownTimers, mediaRecorder, gridVars, appAudioVars, engineVars>>

\* updateSensitivity(value)
UpdateSensitivity(v) ==
    /\ pressureThreshold' = v
    /\ Observe("UpdateSensitivity", -1, NoVoice)
    /\ UNCHANGED <<currentMode, recordingState, isRecordingOnCooldown, recordingReady,
                   lastPressureState, micSelected, samples, startCalls, stopCalls,
                   cooldownTimers, mediaRecorder, gridVars, appAudioVars, engineVars>>

\* ===================================== AudioRugApp: region debouncer
\* The nine cells of the 3x3 grid and their rectangles on the 10x10 sensor.
GridCells == 0 .. 8
gridRegions ==
    << [minX |-> 0, maxX |-> 2, minY |-> 0, maxY |-> 2],
       [minX |-> 3, maxX |-> 5, minY |-> 0, maxY |-> 2],
       [minX |-> 6, maxX |-> 9, minY |-> 0, maxY |-> 2],
       [minX |-> 0, maxX |-> 2, minY |-> 3, maxY |-> 5],
       [minX |-> 3, maxX |-> 5, minY |-> 3, maxY |-> 5],
       [minX |-> 6, maxX |-> 9, minY |-> 3, maxY |-> 5],
       [minX |-> 0, maxX |-> 2, minY |-> 6, maxY |-> 9],
       [minX |-> 3, maxX |-> 5, minY |-> 6, maxY |-> 9],
       [minX |-> 6, maxX |-> 9, minY |-> 6, maxY |-> 9] >>

\* An index that reads the matrix column by column.
sensorIndexColumnMajor(x, y) == x * 10 + y

\* pressureMatrix[y * 10 + x]
sensorIndex(x, y) == y * 10 + x

\* The two nested loops of checkGridCellsForPressure, starting from 0.
maxPressureInRegion(frame, g) ==
    LET region == gridRegions[g + 1]
        seen == {0} \cup {frame[sensorIndex(x, y)] :
                             x \in region.minX .. region.maxX,
                             y \in region.minY .. region.maxY}
    IN CHOOSE m \in seen : \A n \in seen : m >= n

\* A pressed test that ignores the slider and keeps the default threshold.
regionIsPressedDefault(maxPressure, threshold) == maxPressure > DefaultThreshold

\* isPressed of checkGridCellsForPressure.
regionIsPressed(maxPressure, threshold) == maxPressure > threshold

\* Frames the aggregator is given, by index.
TwoCells(i, k, v) == [j \in Sensors |-> IF j \in {i, k} THEN v ELSE 0]
GridFrames ==
    << ZeroFrame, OneCell(0, 26), OneCell(22, 25), OneCell(5, 26), TwoCells(0, 5, 200),
       OneCell(99, 255), OneCell(36, 101), OneCell(63, 100) >>
FrameIds == 1 .. Len(GridFrames)
\* maxPressureInRegion of each of them, for each cell.
RegionMax == [f \in FrameIds |-> [g \in GridCells |-> maxPressureInRegion(GridFrames[f], g)]]

\* A clearTimeout that cancels nothing.
clearTimeoutForgotten(ts, handle) == ts

\* clearTimeout(handle): a pending handle designates the timeout scheduled
\* last; a handle whose timeout already ran cancels nothing.
clearTimeout(ts, handle) ==
    IF handle = "pending" /\ Len(ts) > 0 THEN SubSeq(ts, 1, Len(ts) - 1) ELSE ts

\* A setTimeout whose callback is due at once.
setTimeoutImmediate(ts, isPressed) ==
    Append(ts, [isPressed |-> isPressed, age |-> pressureDebounceMs])

\* setTimeout(callback, pressureDebounceMs); the callback captures isPressed.
setTimeout(ts, isPressed) == Append(ts, [isPressed |-> isPressed, age |-> 0])

\* A forEach that stops after the first cell.
frameRegionsFirstOnly == {0}

\* The cells gridRegions.forEach visits (those the model follows).
frameRegions == Regions

\* The body of the forEach for the cells of S in index order: the cell is
\* evaluated, its handle is cleared if there is one, its timeout is set.
RECURSIVE forEachRegion(_, _, _)
forEachRegion(st, f, S) ==
    IF S = {} THEN st
    ELSE LET r == CHOOSE x \in S : \A y \in S : x <= y
             isPressed == regionIsPressed(RegionMax[f][r], pressureThreshold)
             had == st.handles[r] # "null"
             ts1 == IF had THEN clearTimeout(st.timeouts[r], st.handles[r])
                    ELSE st.timeouts[r]
             st1 == [timeouts |-> [st.timeouts EXCEPT ![r] = setTimeout(ts1, isPressed)],
                     handles |-> [st.handles EXCEPT ![r] = "pending"],
                     log |-> st.log
                             \o << [op |-> "evaluate", region |-> r] >>
                             \o (IF had THEN << [op |-> "clearTimeout", region |-> r] >>
                                 ELSE << >>)
                             \o << [op |-> "setTimeout", region |-> r] >>]
         IN forEachRegion(st1, f, S \ {r})

\* checkGridCellsForPressure(pressureMatrix)
checkGridCellsForPressure(f) ==
    forEachRegion([timeouts |-> timeouts, handles |-> gridCellDebounceTimers,
                   log |-> << >>], f, frameRegions)

Min2(a, b) == IF a <= b THEN a ELSE b

\* handleSerialData in PERFORM mode; f is the frame's index.
GridFrame(f) ==
    /\ currentMode = "PERFORM"
    /\ \E st \in {checkGridCellsForPressure(f)} :
          /\ \A r \in Regions : Len(st.timeouts[r]) <= MaxTimeouts
          /\ timeouts' = st.timeouts
          /\ gridCellDebounceTimers' = st.handles
          /\ frameLog' = st.log
    /\ lastFrame' = f
    /\ frameThreshold' = pressureThreshold
    /\ sinceFrame' = 0
    /\ flicker' = [r \in Regions |->
                     IF /\ flicker[r] >= 1
                        /\ sinceFrame < pressureDebounceMs
                        /\ (RegionMax[f][r] > pressureThreshold)
                              # (RegionMax[lastFrame][r] > frameThreshold)
                     THEN Min2(flicker[r] + 1, MaxFlicker)
                     ELSE 1]
    /\ debounceEvent' = NoEvent
    /\ lastOp' = Op("GridFrame", f, NoVoice)
    /\ settle' = IF settle.on
                 THEN [settle EXCEPT !.quiet = TRUE, !.events = [r \in Regions |-> 0]]
                 ELSE settle
    /\ UNCHANGED <<currentMode, recVars, gridCellPressureState, appAudioVars, engineVars,
                   scn, scnMid, stopObsVars, hold, serialVars, perfVars, paramVars>>

\* A transition test that looks at the level only, not at the committed state.
debounceTransitionLevel(isPressed, currentIsPressed) ==
    IF isPressed THEN "ON" ELSE "OFF"

\* What the timeout's callback decides from the captured isPressed and the
\* committed state it reads when it runs.
debounceTransition(isPressed, currentIsPressed) ==
    IF isPressed /\ ~currentIsPressed THEN "ON"
    ELSE IF ~isPressed /\ currentIsPressed THEN "OFF"
    ELSE "none"

RemoveAt(ts, i) == SubSeq(ts, 1, i - 1) \o SubSeq(ts, i + 1, Len(ts))

\* The i-th pending timeout of region r is due and its callback runs.
DebounceFire(r, i) ==
    /\ i <= Len(timeouts[r])
    /\ timeouts[r][i].age >= pressureDebounceMs
    /\ LET tr == debounceTransition(timeouts[r][i].isPressed, gridCellPressureState[r])
       IN /\ IF tr = "none"
             THEN /\ SetEng(Eng)
                  /\ UNCHANGED <<gridCellPressureState, decoding, activeSampleSources>>
             ELSE /\ gridCellPressureState' = [gridCellPressureState EXCEPT ![r] = (tr = "ON")]
                  /\ handleGridCellPressureChange(r, tr = "ON")
          /\ debounceEvent' = IF tr = "none" THEN NoEvent
                              ELSE [region |-> r, on |-> (tr = "ON")]
          /\ settle' = IF settle.on /\ tr # "none"
                       THEN [settle EXCEPT !.events[r] = Min2(@ + 1, 2)]
                       ELSE settle
    /\ timeouts' = [timeouts EXCEPT ![r] = RemoveAt(@, i)]
    /\ gridCellDebounceTimers' =
          [gridCellDebounceTimers EXCEPT
              ![r] = IF i = Len(timeouts[r]) /\ @ = "pending" THEN "fired" ELSE @]
    /\ lastOp' = Op("DebounceFire", r, NoVoice)
    /\ UNCHANGED <<currentMode, recVars, effectsEnabled, mousePressed, restartTimers,
                   scn, scnMid, flicker, gridObsVars, stopObsVars, hold, serialVars, perfVars,
                   paramVars>>
    /\ PendingTotal' <= MaxPending

RECURSIVE AgeAll(_)
AgeAll(ts) ==
    IF ts = << >> THEN << >>
    ELSE << [Head(ts) EXCEPT !.age = Min2(@ + TickMs, pressureDebounceMs)] >>
         \o AgeAll(Tail(ts))

\* Time passes with no handler running.
Tick ==
    /\ \/ sinceFrame < pressureDebounceMs
       \/ \E r \in Regions : \E i \in 1 .. Len(timeouts[r]) :
             timeouts[r][i].age < pressureDebounceMs
    /\ timeouts' = [r \in Regions |-> AgeAll(timeouts[r])]
    /\ sinceFrame' = Min2(sinceFrame + TickMs, pressureDebounceMs)
    /\ debounceEvent' = NoEvent
    /\ lastOp' = Op("Tick", -1, NoVoice)
    /\ UNCHANGED <<currentMode, recVars, gridCellPressureState, gridCellDebounceTimers,
                   appAudioVars, engineVars, scn, scnMid, flicker, lastFrame,
                   frameThreshold, frameLog, stopObsVars, hold, settle, serialVars,
                   perfVars, paramVars>>

\* A clearing of the timers that cancels none of them.
clearAllTimeoutsNone(ts) == ts

\* The clearTimeout of every kept handle in clearAllActiveEffectsAndSamples.
clearAllTimeouts(ts) ==
    [r \in Regions |-> IF gridCellDebounceTimers[r] # "null"
                       THEN clearTimeout(ts[r], gridCellDebounceTimers[r])
                       ELSE ts[r]]

\* ======================================================== switchMode
\* The recording part of switchMode: an ongoing recording is stopped, then
\* the state machine is reset.
switchModeRec(x) ==
    LET x1 == IF x.rs = "recording" THEN stopRecording(x) ELSE x
    IN [x1 EXCEPT !.rs = "idle", !.cd = FALSE, !.ready = TRUE, !.last = FALSE]

\* clearAllActiveEffectsAndSamples that stops the Voices of the pressed
\* regions only.
clearPressedOnly ==
    /\ SetEng(stopAll(Eng, {r \in Regions : activeSampleSources[r] /\ gridCellPressureState[r]}))
    /\ activeSampleSources' = [r \in Regions |-> FALSE]
    /\ gridCellPressureState' = [r \in Regions |-> FALSE]
    /\ timeouts' = clearAllTimeouts(timeouts)
    /\ gridCellDebounceTimers' = [r \in Regions |-> "null"]

\* clearAllActiveEffectsAndSamples
clearAllActiveEffectsAndSamples ==
    /\ SetEng(stopAll(Eng, {r \in Regions : activeSampleSources[r]}))
    /\ activeSampleSources' = [r \in Regions |-> FALSE]
    /\ gridCellPressureState' = [r \in Regions |-> FALSE]
    /\ timeouts' = clearAllTimeouts(timeouts)
    /\ gridCellDebounceTimers' = [r \in Regions |-> "null"]

\* What switchMode finds when it is called: Voices in the engine's
\* registry, debounce timeouts not yet fired, both or neither.
Found ==
    LET voices == \E r \in Regions : activeLoopedSources[r] # NoVoice
        timers == \E r \in Regions : timeouts[r] # << >>
    IN IF voices /\ timers THEN "voices and timers"
       ELSE IF voices THEN "voices"
       ELSE IF timers THEN "timers"
       ELSE NoVoice

\* switchMode(mode)
SwitchMode(mode) ==
    /\ currentMode' = mode
    /\ LET x == switchModeRec(Rec)
       IN /\ WithinCalls(x)
          /\ SetRec(x)
    /\ clearAllActiveEffectsAndSamples
    /\ UNCHANGED <<pressureThreshold, micSelected, samples, cooldownTimers,
                   effectsEnabled, mousePressed, decoding, restartTimers>>
    /\ Observe("SwitchMode", IF mode = "RECORD" THEN 0 ELSE 1, Found)

\* ============================================= performance recording
\* The fields the performance recording steps write.
Perf == [recording |-> isPerformanceRecording, promise |-> performanceRecordingPromise,
         blob |-> performanceRecordingBlob, stops |-> perfStops,
         recorder |-> performanceRecorder, captures |-> captures]
SetPerf(x) ==
    /\ isPerformanceRecording' = x.recording
    /\ performanceRecordingPromise' = x.promise
    /\ performanceRecordingBlob' = x.blob
    /\ perfStops' = x.stops
    /\ performanceRecorder' = x.recorder
    /\ captures' = x.captures

\* AudioEngine.startPerformanceRecording(): a MediaRecorder is created and
\* started and a promise is returned; when creating or starting it throws,
\* the promise is rejected.
engineStartPerformanceRecording(x, ok) ==
    IF ok
    THEN [x EXCEPT !.captures = Append(@, [recorder |-> "recording", promise |-> "pending",
                                           blobs |-> 0]),
                   !.recorder = Len(x.captures) + 1]
    ELSE [x EXCEPT !.captures = Append(@, [recorder |-> "none", promise |-> "rejected",
                                           blobs |-> 0])]

\* AudioEngine.stopPerformanceRecording() that never stops the recorder.
engineStopPerformanceRecordingNever(x) == x

\* AudioEngine.stopPerformanceRecording()
engineStopPerformanceRecording(x) ==
    IF x.recorder # 0 /\ x.captures[x.recorder].recorder = "recording"
    THEN [x EXCEPT !.captures[x.recorder].recorder = "inactive"]
    ELSE x

\* AudioRugApp.startPerformanceRecording() from the engine call on.
startPerformanceRecording(x, ok) ==
    LET y == engineStartPerformanceRecording(x, ok)
    IN [y EXCEPT !.promise = Len(y.captures), !.recording = TRUE]

\* AudioRugApp.stopPerformanceRecording() resumes with the promise settled.
stopPerformanceRecordingSettled(x, p) ==
    IF x.captures[p].promise = "resolved"
    THEN [x EXCEPT !.blob = p, !.recording = FALSE, !.stops = @ \ {p}]
    ELSE [x EXCEPT !.recording = FALSE, !.stops = @ \ {p}]

\* AudioRugApp.stopPerformanceRecording(): the engine is stopped, then the
\* promise stored by the start is awaited.
stopPerformanceRecording(x) ==
    IF ~x.recording THEN x
    ELSE LET y == engineStopPerformanceRecording(x)
         IN IF y.captures[y.promise].promise = "pending"
            THEN [y EXCEPT !.stops = @ \cup {y.promise}]
            ELSE stopPerformanceRecordingSettled(y, y.promise)

PerfStep ==
    /\ ObserveApp("perf", -1, NoVoice)
    /\ UNCHANGED <<currentMode, recVars, gridVars, appAudioVars, engineVars>>

\* A click on the performance record button: togglePerformanceRecording.
\* A start awaits audioContext.resume() when the context is suspended.
TogglePerformanceRecording(suspended, ok) ==
    /\ IF isPerformanceRecording
       THEN /\ SetPerf(stopPerformanceRecording(Perf))
            /\ UNCHANGED perfStarts
       ELSE /\ perfStarts + Len(captures) < MaxCaptures
            /\ IF suspended
               THEN /\ perfStarts' = perfStarts + 1
                    /\ SetPerf(Perf)
               ELSE /\ SetPerf(startPerformanceRecording(Perf, ok))
                    /\ UNCHANGED perfStarts
    /\ PerfStep

\* audioContext.resume() resolves: startPerformanceRecording goes on.
PerformanceResumed(ok) ==
    /\ perfStarts > 0
    /\ perfStarts' = perfStarts - 1
    /\ SetPerf(startPerformanceRecording(Perf, ok))
    /\ PerfStep

\* The stop event of a stopped MediaRecorder: onstop builds the blob and
\* resolves the promise; a stopPerformanceRecording awaiting it resumes.
RecorderStopped(i) ==
    /\ i <= Len(captures)
    /\ captures[i].recorder = "inactive"
    /\ captures[i].promise = "pending"
    /\ LET x == [Perf EXCEPT !.captures[i].promise = "resolved", !.captures[i].blobs = @ + 1]
       IN SetPerf(IF i \in x.stops THEN stopPerformanceRecordingSettled(x, i) ELSE x)
    /\ UNCHANGED perfStarts
    /\ PerfStep

\* ======================================================= SerialHandler
\* Text is a sequence of one-character strings.
Whitespace == {" ", "\t", "\r"}
DecDigits == << "0", "1", "2", "3", "4", "5", "6", "7", "8", "9" >>
HexLower == << "a", "b", "c", "d", "e", "f" >>
HexUpper == << "A", "B", "C", "D", "E", "F" >>

\* The value of character c as a digit in the radix, or -1 when it is none.
digitValue(c, radix) ==
    IF \E i \in 1 .. 10 : DecDigits[i] = c
    THEN (CHOOSE i \in 1 .. 10 : DecDigits[i] = c) - 1
    ELSE IF radix = 16 /\ \E i \in 1 .. 6 : HexLower[i] = c \/ HexUpper[i] = c
    THEN (CHOOSE i \in 1 .. 6 : HexLower[i] = c \/ HexUpper[i] = c) + 9
    ELSE -1

\* String.prototype.trim
RECURSIVE trimStart(_)
trimStart(s) ==
    IF s # << >> /\ Head(s) \in Whitespace THEN trimStart(Tail(s)) ELSE s
RECURSIVE trimEnd(_)
trimEnd(s) ==
    IF s # << >> /\ s[Len(s)] \in Whitespace
    THEN trimEnd(SubSeq(s, 1, Len(s) - 1))
    ELSE s
trim(s) == trimEnd(trimStart(s))

\* String.prototype.split(sep): the pieces of s[lo .. hi], by halves; the
\* last piece of the left half continues in the first of the right half.
RECURSIVE splitRange(_, _, _, _)
splitRange(s, sep, lo, hi) ==
    IF lo > hi THEN << << >> >>
    ELSE IF \A i \in lo .. hi : s[i] # sep THEN << SubSeq(s, lo, hi) >>
    ELSE IF lo = hi THEN << << >>, << >> >>
    ELSE LET mid == (lo + hi) \div 2
             left == splitRange(s, sep, lo, mid)
             right == splitRange(s, sep, mid + 1, hi)
         IN SubSeq(left, 1, Len(left) - 1)
            \o << left[Len(left)] \o right[1] >>
            \o Tail(right)
split(s, sep) == splitRange(s, sep, 1, Len(s))

\* The digits parseInt consumes from position i on: <<how many, their value>>.
RECURSIVE parseDigits(_, _, _, _)
parseDigits(d, radix, i, acc) ==
    IF i > Len(d) \/ digitValue(d[i], radix) < 0 THEN acc
    ELSE parseDigits(d, radix, i + 1,
                     << acc[1] + 1, acc[2] * radix + digitValue(d[i], radix) >>)

\* parseInt(string) with no radix: leading white space, a sign, a 0x prefix,
\* then digits up to the first character that is none; NaN without digits.
parseInt(s) ==
    LET t == trimStart(s)
        signed == t # << >> /\ Head(t) \in {"-", "+"}
        body == IF signed THEN Tail(t) ELSE t
        hex == Len(body) >= 2 /\ body[1] = "0" /\ body[2] \in {"x", "X"}
        r == IF hex THEN parseDigits(body, 16, 3, << 0, 0 >>)
             ELSE parseDigits(body, 10, 1, << 0, 0 >>)
    IN [nan |-> r[1] = 0,
        value |-> IF signed /\ Head(t) = "-" THEN 0 - r[2] ELSE r[2]]

\* parseInt(trimmed) || 0
parseIntOrZero(s) ==
    LET n == parseInt(s) IN IF n.nan \/ n.value = 0 THEN 0 ELSE n.value

\* A clamp without the lower limit.
clampUpperOnly(v) == IF v > 255 THEN 255 ELSE v

\* Math.max(0, Math.min(255, pressure))
clamp(v) ==
    LET low == IF 255 < v THEN 255 ELSE v
    IN IF 0 > low THEN 0 ELSE low

\* parseSerialData(line): the frames handed to onDataReceived, none or one;
\* a frame is the sequence of its 100 values.
\* parseSerialData(line) that accepts the first 100 of 100 or more values.
parseSerialDataLenient(line) ==
    LET values == split(line, ",")
    IN IF Len(values) >= NumSensors
       THEN << [i \in 1 .. NumSensors |-> clamp(parseIntOrZero(trim(values[i])))] >>
       ELSE << >>

parseSerialData(line) ==
    LET values == split(line, ",")
    IN IF Len(values) = NumSensors
       THEN << [i \in 1 .. NumSensors |-> clamp(parseIntOrZero(trim(values[i])))] >>
       ELSE << >>

\* The forEach over the complete lines of processIncomingData.
RECURSIVE parseLines(_, _)
parseLines(lines, k) ==
    IF k > Len(lines) THEN << >>
    ELSE LET line == trim(lines[k])
         IN (IF line # << >>
             THEN << [line |-> line, emitted |-> parseSerialData(line)] >>
             ELSE << >>)
            \o parseLines(lines, k + 1)

\* processIncomingData(data) that parses the last fragment with the lines.
processIncomingDataEager(buffer, data) ==
    LET lines == split(buffer \o data, "\n")
    IN [buffer |-> << >>, log |-> parseLines(lines, 1)]

\* processIncomingData(data): the new buffer and the parse calls made.
processIncomingData(buffer, data) ==
    LET lines == split(buffer \o data, "\n")
    IN [buffer |-> lines[Len(lines)],
        log |-> parseLines(SubSeq(lines, 1, Len(lines) - 1), 1)]

\* Text the transport can deliver.  A token is written digit by digit.
RECURSIVE joinRange(_, _, _)
joinRange(tokens, lo, hi) ==
    IF lo > hi THEN << >>
    ELSE IF lo = hi THEN tokens[lo]
    ELSE LET mid == (lo + hi) \div 2
         IN joinRange(tokens, lo, mid) \o << "," >> \o joinRange(tokens, mid + 1, hi)
joinTokens(tokens) == joinRange(tokens, 1, Len(tokens))
TestTokens ==
    { << "0" >>, << "7" >>, << "2", "5", "5" >>, << "2", "5", "6" >>, << "-", "5" >>,
      << "1", "2", "a" >>, << "a", "b", "c" >>, << >>, << " ", "4", "2", " " >>,
      << "3", ".", "9" >>, << "0", "x", "1", "F" >>, << "+", "7" >>, << "-" >>,
      << "9", "9", "9", "9" >> }
\* n tokens, all "0" except the one at position pos.
LineOf(n, pos, tok) == joinTokens([i \in 1 .. n |-> IF i = pos THEN tok ELSE << "0" >>])
NewLine == << "\n" >>
HalfLine == joinTokens([i \in 1 .. (NumSensors \div 2) |-> << "9" >>])
TestChunks ==
    {LineOf(NumSensors, 1, tok) \o NewLine : tok \in TestTokens}
    \cup {LineOf(NumSensors, NumSensors, tok) \o NewLine :
             tok \in {<< >>, << " ", "4", "2", " " >>, << "2", "5", "6" >>}}
    \cup { LineOf(NumSensors - 1, 1, << "7" >>) \o NewLine,
           LineOf(NumSensors + 1, 1, << "7" >>) \o NewLine,
           LineOf(NumSensors, 2, << "8" >>) \o << "\r" >> \o NewLine,
           LineOf(NumSensors, 1, << "1" >>) \o NewLine
              \o LineOf(NumSensors, 1, << "2" >>) \o NewLine,
           NewLine, HalfLine, << "," >> \o HalfLine \o NewLine,
           << "a", "b", "c" >> \o NewLine,
           << "a", "b", "c" >> \o NewLine \o LineOf(NumSensors, 1, << "3" >>) \o NewLine }

\* Pieces a stream can arrive in: a frame line cut inside its token 255,
\* the newline alone, the whole line, the end of one line with the start
\* of the next, and white space and a token on their own.
CutLine == LineOf(NumSensors, 76, << "2", "5", "5" >>)
ChunkPieces ==
    LET cut == 152
        head == SubSeq(CutLine, 1, cut)
        rest == SubSeq(CutLine, cut + 1, Len(CutLine))
    IN { head, rest, NewLine, CutLine \o NewLine, rest \o NewLine \o head,
         << "\r" >>, << " " >>, << "7", "," >> }

\* Chunks of the connection's runs: a frame, a fragment, a malformed line.
LinkChunks ==
    { LineOf(NumSensors, 1, << "7" >>) \o NewLine, HalfLine, << "a", "b", "c" >> \o NewLine }

\* The fields of the SerialHandler that the connection steps write, with
\* the reader's lock and the session's status line.
Link == [port |-> port, reader |-> reader, isConnected |-> isConnected,
         keepReading |-> keepReading, readerLocked |-> readerLocked,
         statusText |-> statusText]
SetLink(l) ==
    /\ port' = l.port
    /\ reader' = l.reader
    /\ isConnected' = l.isConnected
    /\ keepReading' = l.keepReading
    /\ readerLocked' = l.readerLocked
    /\ statusText' = l.statusText

\* handleConnectionChange(connected)
handleConnectionChange(l, connected) ==
    [l EXCEPT !.statusText = IF connected THEN "Connected" ELSE "Disconnected"]

\* handleDisconnection()
handleDisconnection(l) ==
    IF ~l.isConnected THEN l
    ELSE handleConnectionChange(
             [l EXCEPT !.isConnected = FALSE, !.keepReading = FALSE, !.port = "null",
                       !.reader = "null"],
             FALSE)

\* The finally block of startReading.
releaseReader(l) ==
    IF l.reader # "null"
    THEN [l EXCEPT !.readerLocked = FALSE, !.reader = "null"]
    ELSE l

\* The condition of the read loop.
loopContinues(l) == l.port # "null" /\ l.keepReading

\* connect() after requestPort and open resolved: the flags, the part of
\* startReading up to its first await, and the notification.  The button
\* offers it while the handler is not connected; the previous read loop,
\* if any, has returned.
Connect ==
    /\ ~isConnected
    /\ port = "null"
    /\ disconnectPc = "none"
    /\ readLoop \in {"idle", "returned"}
    /\ SetLink(handleConnectionChange(
                  [Link EXCEPT !.port = "open", !.isConnected = TRUE, !.keepReading = TRUE,
                               !.reader = "reader", !.readerLocked = TRUE],
                  TRUE))
    /\ pipe' = "piping"
    /\ readLoop' = "awaitRead"
    /\ disconnectPc' = "none"
    /\ UNCHANGED <<appVars, perfVars, paramVars, decoderVars>>

\* reader.read() resolves with a chunk: the read loop hands it to
\* processIncomingData and tests its condition again.
ReceiveChunk(data) ==
    /\ readLoop = "awaitRead"
    /\ pipe = "piping"
    /\ \E r \in {processIncomingData(readBuffer, data)} :
       LET n == SumTo([k \in 0 .. Len(r.log) - 1 |-> Len(r.log[k + 1].emitted)], Len(r.log))
       IN /\ Len(r.buffer) <= MaxBuffer
          /\ readBuffer' = r.buffer
          /\ parseLog' = r.log
          /\ frameCount' = Min2(frameCount + n, MaxFrames)
          /\ lastChunk' = data
          /\ stream.on => stream.n < MaxChunks
          /\ stream' = IF stream.on
                       THEN [on |-> TRUE, n |-> stream.n + 1, fed |-> stream.fed \o data,
                             emitted |-> stream.emitted \o r.log]
                       ELSE stream
    /\ IF loopContinues(Link)
       THEN /\ readLoop' = "awaitRead"
            /\ UNCHANGED <<port, reader, isConnected, keepReading, readerLocked, statusText>>
       ELSE /\ readLoop' = "returned"
            /\ SetLink(releaseReader(Link))
    /\ UNCHANGED <<appVars, perfVars, paramVars, pipe, disconnectPc>>

ReadErrors == {"NetworkError", "Error"}

\* reader.read() rejects: the catch block and the finally block of
\* startReading.
ReadRejects(error) ==
    /\ readLoop = "awaitRead"
    /\ SetLink(releaseReader(IF error = "NetworkError"
                             THEN handleDisconnection(Link)
                             ELSE Link))
    /\ readLoop' = "returned"
    /\ UNCHANGED <<appVars, perfVars, paramVars, decoderVars, pipe, disconnectPc>>

\* The pipeTo promise rejects: the catch callback of readableStreamClosed.
\* The read loop is still waiting for its read.
PipeRejects(error) ==
    /\ pipe = "piping"
    /\ pipe' = "rejected"
    /\ SetLink(IF error = "NetworkError" THEN handleDisconnection(Link) ELSE Link)
    /\ UNCHANGED <<appVars, perfVars, paramVars, decoderVars, readLoop, disconnectPc>>

\* disconnect() that leaves the reader alone.
DisconnectWithoutCancel ==
    /\ port # "null"
    /\ disconnectPc = "none"
    /\ keepReading' = FALSE
    /\ disconnectPc' = "awaitClose"
    /\ UNCHANGED <<appVars, perfVars, paramVars, decoderVars, port, reader, isConnected, readerLocked, statusText,
                   readLoop, pipe>>

\* disconnect() up to its first await.  reader.cancel() closes the pending
\* read request with done = true before it returns, and ends the pipe.
Disconnect ==
    /\ port # "null"
    /\ disconnectPc = "none"
    /\ keepReading' = FALSE
    /\ IF reader # "null"
       THEN /\ disconnectPc' = "awaitCancel"
            /\ readLoop' = IF readLoop = "awaitRead" THEN "cancelled" ELSE readLoop
            /\ pipe' = IF pipe = "piping" THEN "closed" ELSE pipe
       ELSE /\ disconnectPc' = "awaitClose"
            /\ UNCHANGED <<readLoop, pipe>>
    /\ UNCHANGED <<appVars, perfVars, paramVars, decoderVars, port, reader, isConnected, readerLocked, statusText>>

\* The read loop resumes with done = true: break, then the finally block.
ReadLoopDone ==
    /\ readLoop = "cancelled"
    /\ readLoop' = "returned"
    /\ SetLink(releaseReader(Link))
    /\ UNCHANGED <<appVars, perfVars, paramVars, decoderVars, pipe, disconnectPc>>

\* disconnect() after reader.cancel() settled: the writer is taken and
\* released, port.close() is awaited.  The read request was closed inside
\* cancel(), so the read loop's continuation was queued before this one.
DisconnectCancelled ==
    /\ disconnectPc = "awaitCancel"
    /\ readLoop # "cancelled"
    /\ disconnectPc' = "awaitClose"
    /\ UNCHANGED <<appVars, perfVars, paramVars, decoderVars, port, reader, isConnected, keepReading,
                   readerLocked, statusText, readLoop, pipe>>

\* disconnect() after port.close() settled, whether it resolved or threw.
DisconnectClosed ==
    /\ disconnectPc = "awaitClose"
    /\ disconnectPc' = "none"
    /\ SetLink(handleDisconnection([Link EXCEPT !.port = "null"]))
    /\ UNCHANGED <<appVars, perfVars, paramVars, decoderVars, readLoop, pipe>>

\* ============================================================== Init
\* After construction and completeInitialization.
StreamOff == [on |-> FALSE, n |-> 0, fed |-> << >>, emitted |-> << >>]
SettleOff == [on |-> FALSE, quiet |-> FALSE, events |-> [r \in Regions |-> 0]]

InitApp ==
    /\ recordingState = "idle"
    /\ isRecordingOnCooldown = FALSE
    /\ lastPressureState = FALSE
    /\ pressureThreshold = DefaultThreshold
    /\ effectsEnabled = TRUE
    /\ activeSampleSources = [r \in Regions |-> FALSE]
    /\ mousePressed = [r \in Regions |-> FALSE]
    /\ gridCellPressureState = [r \in Regions |-> FALSE]
    /\ gridCellDebounceTimers = [r \in Regions |-> "null"]
    /\ timeouts = [r \in Regions |-> << >>]
    /\ lastFrame = 1
    /\ frameThreshold = DefaultThreshold
    /\ sinceFrame = pressureDebounceMs
    /\ flicker = [r \in Regions |-> 0]
    /\ debounceEvent = NoEvent
    /\ frameLog = << >>
    /\ readBuffer = << >>
    /\ parseLog = << >>
    /\ frameCount = 0
    /\ lastChunk = << >>
    /\ isPerformanceRecording = FALSE
    /\ performanceRecordingPromise = 0
    /\ performanceRecordingBlob = 0
    /\ perfStarts = 0
    /\ perfStops = {}
    /\ performanceRecorder = 0
    /\ captures = << >>
    /\ effectParams = DefaultParams
    /\ paramResult = [op |-> "none", effect |-> "none", param |-> "none", ok |-> TRUE,
                      value |-> 0]
    /\ startCalls = 0
    /\ stopCalls = [k \in StopKinds |-> 0]
    /\ cooldownTimers = 0
    /\ decoding = [c \in CallKinds |-> 0]
    /\ restartTimers = [r \in Regions |-> 0]
    /\ activeLoopedSources = [r \in Regions |-> NoVoice]
    /\ orphanSources = [r \in Regions |-> 0]
    /\ effectActive = [e \in Effects |-> FALSE]
    /\ nodesConnected = [e \in Effects |-> FALSE]
    /\ scn = 0
    /\ scnMid = "idle"
    /\ staleStops = [k \in StopKinds |-> 0]
    /\ timerOwners = << >>

\* The SerialHandler as constructed, the status line as the page has it.
LinkConstructed ==
    /\ port = "null"
    /\ reader = "null"
    /\ isConnected = FALSE
    /\ keepReading = FALSE
    /\ readerLocked = FALSE
    /\ readLoop = "idle"
    /\ pipe = "none"
    /\ disconnectPc = "none"
    /\ statusText = "Disconnected"

\* The SerialHandler after connect(): the read loop awaits its first read.
LinkConnected ==
    /\ port = "open"
    /\ reader = "reader"
    /\ isConnected = TRUE
    /\ keepReading = TRUE
    /\ readerLocked = TRUE
    /\ readLoop = "awaitRead"
    /\ pipe = "piping"
    /\ disconnectPc = "none"
    /\ statusText = "Connected"

\* The recording trigger starts where the constructor leaves it.
InitRec ==
    /\ InitApp
    /\ LinkConstructed
    /\ currentMode = "RECORD"
    /\ recordingReady = FALSE
    /\ micSelected \in BOOLEAN
    /\ samples = 0
    /\ mediaRecorder = "null"
    /\ hold = "untracked"
    /\ settle = SettleOff
    /\ stream = StreamOff
    /\ lastOp = [name |-> "Init", arg |-> -1, rs |-> "idle", cd |-> FALSE,
                 ready |-> FALSE, last |-> FALSE, voice |-> NoVoice]

\* The same, with the mat up and its hold followed from here on.
InitHold ==
    /\ InitApp
    /\ LinkConstructed
    /\ currentMode = "RECORD"
    /\ recordingReady = FALSE
    /\ micSelected \in BOOLEAN
    /\ samples = 0
    /\ mediaRecorder = "null"
    /\ hold = "up"
    /\ settle = SettleOff
    /\ stream = StreamOff
    /\ lastOp = [name |-> "Init", arg |-> -1, rs |-> "idle", cd |-> FALSE,
                 ready |-> FALSE, last |-> FALSE, voice |-> NoVoice]

\* The voices start after one sample was recorded and PERFORM was entered.
InitAudio ==
    /\ InitApp
    /\ hold = "untracked"
    /\ settle = SettleOff
    /\ stream = StreamOff
    /\ LinkConstructed
    /\ currentMode = "PERFORM"
    /\ recordingReady = TRUE
    /\ micSelected = TRUE
    /\ samples = 1
    /\ mediaRecorder = "inactive"
    /\ lastOp = [name |-> "Init", arg |-> -1, rs |-> "idle", cd |-> FALSE,
                 ready |-> TRUE, last |-> FALSE, voice |-> NoVoice]

\* The same, with the settling of the debouncer followed: no frame yet.
InitSettle ==
    /\ InitApp
    /\ hold = "untracked"
    /\ settle = [SettleOff EXCEPT !.on = TRUE]
    /\ stream = StreamOff
    /\ LinkConstructed
    /\ currentMode = "PERFORM"
    /\ recordingReady = TRUE
    /\ micSelected = TRUE
    /\ samples = 1
    /\ mediaRecorder = "inactive"
    /\ lastOp = [name |-> "Init", arg |-> -1, rs |-> "idle", cd |-> FALSE,
                 ready |-> TRUE, last |-> FALSE, voice |-> NoVoice]

\* The debouncer starts in PERFORM mode, entered before any recording.
InitGrid ==
    /\ InitApp
    /\ hold = "untracked"
    /\ settle = SettleOff
    /\ stream = StreamOff
    /\ LinkConstructed
    /\ currentMode = "PERFORM"
    /\ recordingReady = TRUE
    /\ micSelected = FALSE
    /\ samples = 0
    /\ mediaRecorder = "null"
    /\ lastOp = [name |-> "Init", arg |-> -1, rs |-> "idle", cd |-> FALSE,
                 ready |-> TRUE, last |-> FALSE, voice |-> NoVoice]

\* The decoder starts with an empty buffer on an open connection, the app
\* as constructed.
InitSerial ==
    /\ InitApp
    /\ hold = "untracked"
    /\ settle = SettleOff
    /\ stream = StreamOff
    /\ LinkConnected
    /\ currentMode = "RECORD"
    /\ recordingReady = FALSE
    /\ micSelected = FALSE
    /\ samples = 0
    /\ mediaRecorder = "null"
    /\ lastOp = [name |-> "Init", arg |-> -1, rs |-> "idle", cd |-> FALSE,
                 ready |-> FALSE, last |-> FALSE, voice |-> NoVoice]

\* The same, with the stream followed from its first chunk.
InitChunk ==
    /\ InitApp
    /\ hold = "untracked"
    /\ settle = SettleOff
    /\ stream = [StreamOff EXCEPT !.on = TRUE]
    /\ LinkConnected
    /\ currentMode = "RECORD"
    /\ recordingReady = FALSE
    /\ micSelected = FALSE
    /\ samples = 0
    /\ mediaRecorder = "null"
    /\ lastOp = [name |-> "Init", arg |-> -1, rs |-> "idle", cd |-> FALSE,
                 ready |-> FALSE, last |-> FALSE, voice |-> NoVoice]

\* The connection starts as constructed, the app as for the decoder.
InitLink ==
    /\ InitApp
    /\ hold = "untracked"
    /\ settle = SettleOff
    /\ stream = StreamOff
    /\ LinkConstructed
    /\ currentMode = "RECORD"
    /\ recordingReady = FALSE
    /\ micSelected = FALSE
    /\ samples = 0
    /\ mediaRecorder = "null"
    /\ lastOp = [name |-> "Init", arg |-> -1, rs |-> "idle", cd |-> FALSE,
                 ready |-> FALSE, last |-> FALSE, voice |-> NoVoice]

Modes == {"RECORD", "PERFORM"}

NextRec ==
    \/ \E t \in FrameTotals : RecordFrame(t)
    \/ ManualRecordToggle
    \/ \E ok \in BOOLEAN : StartRecordingDone(ok)
    \/ \E k \in StopKinds, b \in 0 .. Len(TestBlobs) : StopRecordingDone(k, b)
    \/ CooldownTimerFire
    \/ \E b \in BOOLEAN : SelectMicrophone(b)
    \/ \E v \in Thresholds : UpdateSensitivity(v)
    \/ \E m \in Modes : SwitchMode(m)

NextAudio ==
    \/ \E r \in Regions : MouseDown(r)
    \/ \E r \in Regions : MouseUp(r)
    \/ \E r \in Regions, e \in EffectArgs : VoiceStarted(r, e)
    \/ \E r \in Regions, e \in EffectArgs : VoiceStartFailed(r, e)
    \/ ToggleEffects
    \/ \E r \in Regions : RestartTimerFire(r)
    \/ ResetAllEffects
    \/ \E m \in Modes : SwitchMode(m)

NextGrid ==
    \/ \E f \in FrameIds : GridFrame(f)
    \/ \E t \in FrameTotals : RecordFrame(t)
    \/ Tick
    \/ \E r \in Regions, i \in 1 .. MaxTimeouts : DebounceFire(r, i)
    \/ \E r \in Regions : MouseDown(r)
    \/ \E r \in Regions : MouseUp(r)
    \/ \E v \in Thresholds : UpdateSensitivity(v)
    \/ \E m \in Modes : SwitchMode(m)

NextSerial ==
    \E data \in TestChunks : ReceiveChunk(data)

\* The recording machine with the mat's hold followed, at one threshold.
NextHold ==
    \/ \E t \in FrameTotals : RecordFrame(t)
    \/ ManualRecordToggle
    \/ \E ok \in BOOLEAN : StartRecordingDone(ok)
    \/ \E k \in StopKinds, b \in 0 .. Len(TestBlobs) : StopRecordingDone(k, b)
    \/ CooldownTimerFire
    \/ \E b \in BOOLEAN : SelectMicrophone(b)
    \/ \E m \in Modes : SwitchMode(m)

SpecRec == InitRec /\ [][NextRec]_vars
SpecHold == InitHold /\ [][NextHold]_vars
\* The engine's stop and the duration probe complete, and a cooldown
\* timeout that is due fires.
SpecRecFair ==
    /\ SpecRec
    /\ WF_vars(\E k \in StopKinds, b \in 0 .. Len(TestBlobs) : StopRecordingDone(k, b))
    /\ WF_vars(CooldownTimerFire)
NextLink ==
    \/ Connect
    \/ \E data \in LinkChunks : ReceiveChunk(data)
    \/ \E error \in ReadErrors : ReadRejects(error)
    \/ \E error \in ReadErrors : PipeRejects(error)
    \/ Disconnect
    \/ ReadLoopDone
    \/ DisconnectCancelled
    \/ DisconnectClosed

SpecSerial == InitSerial /\ [][NextSerial]_vars
\* The decoder fed a stream in pieces.
NextChunk ==
    \E data \in ChunkPieces : ReceiveChunk(data)
SpecChunk == InitChunk /\ [][NextChunk]_vars
SpecLink == InitLink /\ [][NextLink]_vars

\* Frames of the mode-change runs: nothing pressed, both regions pressed.
ModeFrames == {1, 5}

NextMode ==
    \/ \E f \in ModeFrames : GridFrame(f)
    \/ Tick
    \/ \E r \in Regions, i \in 1 .. MaxTimeouts : DebounceFire(r, i)
    \/ \E r \in Regions, e \in EffectArgs : VoiceStarted(r, e)
    \/ \E r \in Regions, e \in EffectArgs : VoiceStartFailed(r, e)
    \/ \E m \in Modes : SwitchMode(m)

SpecMode == InitAudio /\ [][NextMode]_vars
\* Time passes, a timeout that is due runs, and a decode completes.
SpecSettle ==
    /\ InitSettle
    /\ [][NextMode]_vars
    /\ WF_vars(Tick)
    /\ \A r \in Regions, i \in 1 .. MaxTimeouts : WF_vars(DebounceFire(r, i))
    /\ WF_vars(\E r \in Regions, e \in EffectArgs : VoiceStarted(r, e) \/ VoiceStartFailed(r, e))

NextPerf ==
    \/ \E suspended \in BOOLEAN, ok \in BOOLEAN : TogglePerformanceRecording(suspended, ok)
    \/ \E ok \in BOOLEAN : PerformanceResumed(ok)
    \/ \E i \in 1 .. MaxCaptures : RecorderStopped(i)
    \/ \E r \in Regions : MouseDown(r)
    \/ \E r \in Regions : MouseUp(r)
    \/ \E r \in Regions, e \in EffectArgs : VoiceStarted(r, e)

SpecPerf == InitAudio /\ [][NextPerf]_vars
\* The stop event of a stopped recorder is delivered.
SpecPerfFair == SpecPerf /\ \A i \in 1 .. MaxCaptures : WF_vars(RecorderStopped(i))

NextParams ==
    \/ \E e \in EffectNames, p \in ParamIds, v \in ParamValues : SetEffectParameter(e, p, v)
    \/ \E e \in EffectNames, p \in ParamIds : GetEffectParameter(e, p)
    \/ ResetAllEffects

SpecParams == InitAudio /\ [][NextParams]_vars
\* The continuations of settled promises are run: the read loop resumes
\* after its read was closed, disconnect() resumes after cancel() and
\* close() settled.
SpecLinkFair ==
    /\ SpecLink
    /\ WF_vars(ReadLoopDone)
    /\ WF_vars(DisconnectCancelled)
    /\ WF_vars(DisconnectClosed)
SpecGrid == InitGrid /\ [][NextGrid]_vars
SpecAudio == InitAudio /\ [][NextAudio]_vars


\* ============================================================ claims
HasVoice(E) == \E r \in Regions : activeLoopedSources[r] = E
FrameStep == \E t \in FrameTotals : RecordFrame(t)
SwitchStep == \E m \in Modes : SwitchMode(m)

\* C1: for every effect, the activation flag is true exactly when some
\* registered Voice has that effect.
C1_ActiveIffReferenced ==
    \A E \in Effects : effectActive[E] <=> HasVoice(E)

\* C2: a voice start that fails registers no Voice for its region and
\* leaves active every active effect that a registered Voice still uses.
C2_FailedStartKeepsSharedEffect ==
    [][\A r \in Regions, eff \in EffectArgs :
          VoiceStartFailed(r, eff) =>
             /\ activeLoopedSources'[r] = NoVoice
             /\ \A E \in Effects :
                   (effectActive[E] /\ \E r2 \in Regions : activeLoopedSources'[r2] = E)
                      => effectActive'[E]]_vars

\* C3: no started source is ever playing without being its region's
\* registry entry, so each region has at most one playing Voice.
C3_NoOrphanSource ==
    \A r \in Regions : orphanSources[r] = 0

\* C4: an effect's current nodes are connected into the effects bus
\* exactly when its activation flag is true.
C4_ConnectedIffActive ==
    \A E \in Effects : nodesConnected[E] <=> effectActive[E]

\* C5: a stop (release, effects toggle or mode switch) that removes a Voice
\* bound to effect E leaves E's activation and connection as they were
\* while another registered Voice is still bound to E, and leaves E
\* inactive and disconnected when it removed the last one.
StopStep == (\E r \in Regions : MouseUp(r)) \/ ToggleEffects \/ SwitchStep
C5_RefCountedDeactivation ==
    [][StopStep =>
          \A E \in Effects :
             (\E r \in Regions : activeLoopedSources[r] = E /\ activeLoopedSources'[r] = NoVoice)
                => IF \E r2 \in Regions : activeLoopedSources'[r2] = E
                   THEN /\ effectActive'[E] = effectActive[E]
                        /\ nodesConnected'[E] = nodesConnected[E]
                   ELSE ~effectActive'[E] /\ ~nodesConnected'[E]]_vars

\* C5 witness: a release has just removed a ringmod Voice while another
\* region's Voice keeps ringmod active and connected.
C5_Witness ==
    /\ lastOp.name = "stop"
    /\ lastOp.voice = "ringmod"
    /\ HasVoice("ringmod")
    /\ effectActive["ringmod"]
    /\ nodesConnected["ringmod"]

\* C6: a frame with the mat pressed, handled while ready is false, leaves
\* recordingState unchanged.
C6_PressWhileNotReady ==
    [][\A t \in FrameTotals :
          (RecordFrame(t) /\ t > pressureThreshold /\ ~recordingReady)
             => recordingState' = recordingState]_vars

\* C6 witness: a press that would have been a trigger (previous frame
\* unpressed, idle, no cooldown, microphone selected) was handled with ready
\* false.
C6_Witness ==
    /\ lastOp.name = "RecordFrame"
    /\ lastOp.arg = 1
    /\ ~lastOp.ready
    /\ ~lastOp.last
    /\ ~lastOp.cd
    /\ lastOp.rs = "idle"
    /\ micSelected
    /\ recordingState = "idle"

\* C7: ready is false at startup and after every switchMode, and turns
\* true only in a frame that shows the mat unpressed.
C7_ReadyFalseAtModeEntry ==
    /\ ~recordingReady
    /\ [][/\ SwitchStep => ~recordingReady'
          /\ (~recordingReady /\ recordingReady')
                => \E t \in FrameTotals : RecordFrame(t) /\ ~(t > pressureThreshold)]_vars

\* C8 as stated: a rising edge with ready true and no cooldown flips
\* recordingState; a frame that is no rising edge leaves it unchanged.
C8_EdgeFlipsState ==
    [][\A t \in FrameTotals :
          RecordFrame(t) =>
             IF t > pressureThreshold /\ ~lastPressureState
             THEN (recordingReady /\ ~isRecordingOnCooldown)
                     => /\ recordingState = "idle" => recordingState' = "recording"
                        /\ recordingState = "recording" => recordingState' = "idle"
             ELSE recordingState' = recordingState]_vars

\* C8 amended: the same, where the flip from idle to recording needs a
\* selected microphone; with none selected the state stays idle.
C8_EdgeFlipsStateWithMic ==
    [][\A t \in FrameTotals :
          RecordFrame(t) =>
             IF t > pressureThreshold /\ ~lastPressureState
             THEN (recordingReady /\ ~isRecordingOnCooldown)
                     => /\ (recordingState = "idle" /\ micSelected)
                              => recordingState' = "recording"
                        /\ (recordingState = "idle" /\ ~micSelected)
                              => recordingState' = "idle"
                        /\ recordingState = "recording" => recordingState' = "idle"
             ELSE recordingState' = recordingState]_vars

\* C8 witness: a rising edge with ready true and no cooldown has just
\* moved idle to recording.
C8_Witness ==
    /\ lastOp.name = "RecordFrame"
    /\ lastOp.arg = 1
    /\ ~lastOp.last
    /\ lastOp.ready
    /\ ~lastOp.cd
    /\ lastOp.rs = "idle"
    /\ recordingState = "recording"

\* C9 as stated: after [unpressed, pressed, unpressed] from idle without
\* cooldown the state has gone to recording and is idle again.
C9_PressReleaseCycle ==
    scn = 3 => (scnMid = "recording" /\ recordingState = "idle")

\* C9 amended: with a microphone selected, [unpressed, pressed, unpressed]
\* from idle without cooldown moves idle to recording once and leaves it
\* recording (the release is no edge); the next pressed frame returns it to
\* idle.
C9_PressReleasePressCycle ==
    micSelected =>
       /\ scn \in {2, 3} => (scnMid = "recording" /\ recordingState = "recording")
       /\ scn = 4 => (scnMid = "recording" /\ recordingState = "idle")

\* C9 witness: the four frames have been handled in a row and the state is
\* idle again.
C9_Witness ==
    scn = 4 /\ micSelected /\ scnMid = "recording" /\ recordingState = "idle"

\* C10: every step of a mat frame, a manual toggle or a mode switch that
\* takes recordingState from recording to idle ends with ready false and
\* onCooldown true.
C10_StopArmsCooldown ==
    [][((FrameStep \/ ManualRecordToggle \/ SwitchStep)
          /\ recordingState = "recording" /\ recordingState' = "idle")
         => (~recordingReady' /\ isRecordingOnCooldown')]_vars

\* C11: while onCooldown is true recordingState is idle, and a mat frame
\* (a rising edge included) or a manual toggle handled during the cooldown
\* leaves recordingState and onCooldown unchanged.
C11_CooldownBlocksStart ==
    /\ [](isRecordingOnCooldown => recordingState = "idle")
    /\ [][((FrameStep \/ ManualRecordToggle) /\ isRecordingOnCooldown)
            => /\ recordingState' = recordingState
               /\ isRecordingOnCooldown' = isRecordingOnCooldown]_vars

\* C11 witness: a rising edge with ready true and a microphone selected was
\* handled during the cooldown and the state is still idle.
C11_Witness ==
    /\ lastOp.name = "RecordFrame"
    /\ lastOp.arg = 1
    /\ ~lastOp.last
    /\ lastOp.ready
    /\ lastOp.cd
    /\ micSelected
    /\ isRecordingOnCooldown
    /\ recordingState = "idle"

\* C12 as stated: a manual toggle flips recordingState whatever ready is,
\* and changes nothing during the cooldown.
C12_ToggleFlipsState ==
    [][ManualRecordToggle =>
          IF isRecordingOnCooldown
          THEN UNCHANGED recVars
          ELSE /\ recordingState = "idle" => recordingState' = "recording"
               /\ recordingState = "recording" => recordingState' = "idle"]_vars

\* C12 amended: the same, where the flip from idle to recording needs a
\* selected microphone; with none selected the state stays idle.
C12_ToggleFlipsStateWithMic ==
    [][ManualRecordToggle =>
          IF isRecordingOnCooldown
          THEN UNCHANGED recVars
          ELSE /\ (recordingState = "idle" /\ micSelected) => recordingState' = "recording"
               /\ (recordingState = "idle" /\ ~micSelected) => UNCHANGED recVars
               /\ recordingState = "recording" => recordingState' = "idle"]_vars

\* C12 witness: a manual toggle handled with ready false and the mat
\* pressed has started a recording.
C12_Witness ==
    /\ lastOp.name = "ManualRecordToggle"
    /\ ~lastOp.ready
    /\ lastOp.last
    /\ ~lastOp.cd
    /\ lastOp.rs = "idle"
    /\ recordingState = "recording"

\* ------------------------------------------------ debouncer claims
\* The step is the handling of frame f by the aggregator.
HandlesFrame(f) == lastOp'.name = "GridFrame" /\ lastOp'.arg = f /\ GridFrame(f)
GridStep == \E f \in FrameIds : HandlesFrame(f)
Fires(r) == \E i \in 1 .. MaxTimeouts : DebounceFire(r, i)
FireStep == \E r \in Regions : Fires(r)
OnEvent(r) == [region |-> r, on |-> TRUE]
OffEvent(r) == [region |-> r, on |-> FALSE]
\* The pressed determination the latest frame gave for region r.
LatestPressed(r) == RegionMax[lastFrame][r] > frameThreshold
\* A step that calls handleGridCellPressureChange(r, true, ...).
EmitsOn(r) == MouseDown(r) \/ (Fires(r) /\ debounceEvent' = OnEvent(r))

\* C13: while frames that alternate for a region keep arriving less than
\* a debounce window apart, no step of the debouncer (frame, passing time,
\* timeout) emits a transition for that region or changes its committed
\* state.
C13_FlickerAbsorbed ==
    [][\A r \in Regions :
          (flicker[r] >= 2 /\ sinceFrame < pressureDebounceMs
             /\ (GridStep \/ Tick \/ FireStep))
             => /\ gridCellPressureState'[r] = gridCellPressureState[r]
                /\ ~Fires(r)
                /\ debounceEvent'.region # r]_vars

\* C13 witness: a run of alternating frames inside the window has reached
\* the observer's cap for a region whose committed state is pressed.
C13_Witness ==
    /\ flicker[0] = MaxFlicker
    /\ gridCellPressureState[0]
    /\ lastOp.name = "GridFrame"

C15_FireCommitsLatest ==
    [][\A r \in Regions :
          Fires(r) =>
             IF LatestPressed(r) # gridCellPressureState[r]
             THEN /\ debounceEvent' = [region |-> r, on |-> LatestPressed(r)]
                  /\ gridCellPressureState'[r] = LatestPressed(r)
             ELSE /\ debounceEvent' = NoEvent
                  /\ gridCellPressureState'[r] = gridCellPressureState[r]]_vars

\* C15 witness: a debounce evaluation has just emitted OFF for region 0.
C15_Witness ==
    /\ lastOp.name = "DebounceFire"
    /\ debounceEvent = OffEvent(0)
    /\ ~gridCellPressureState[0]

\* C16: a region never has more than one pending timeout; after a frame
\* each region has exactly the one the frame scheduled; after a mode
\* switch no region has any.
C16_OnePendingTimer ==
    /\ [](\A r \in Regions : Len(timeouts[r]) <= 1)
    /\ [][GridStep => \A r \in Regions :
                         Len(timeouts'[r]) = 1 /\ timeouts'[r][1].age = 0]_vars
    /\ [][SwitchStep => \A r \in Regions : timeouts'[r] = << >>]_vars

\* C16 witness: a frame has replaced the timeout that the frame before it
\* had scheduled less than a window earlier.
C16_Witness ==
    /\ flicker[0] >= 2
    /\ sinceFrame = 0
    /\ gridCellDebounceTimers[0] = "pending"
    /\ Len(timeouts[0]) = 1

\* C17: in every frame, each of the nine cells is found pressed exactly
\* when some sensor of its rectangle (column band x row band of the
\* row-major grid) is strictly above the threshold.
Band(k) == IF k = 0 THEN 0 .. 2 ELSE IF k = 1 THEN 3 .. 5 ELSE 6 .. 9
Rect(g) == {row * 10 + col : col \in Band(g % 3), row \in Band(g \div 3)}
C17_PressedIffMaxAboveThreshold ==
    [][\A f \in FrameIds :
          HandlesFrame(f) =>
             /\ \A g \in GridCells :
                   regionIsPressed(RegionMax[f][g], pressureThreshold)
                      <=> \E i \in Rect(g) : GridFrames[f][i] > pressureThreshold
             /\ \A r \in Regions :
                   timeouts'[r][Len(timeouts'[r])].isPressed
                      <=> \E i \in Rect(r) : GridFrames[f][i] > pressureThreshold]_vars

\* C17 witness: a frame whose maximum in region 0 equals the threshold has
\* been handled and the region was found unpressed.
C17_Witness ==
    /\ lastOp.name = "GridFrame"
    /\ lastFrame = 3
    /\ frameThreshold = DefaultThreshold
    /\ Len(timeouts[0]) = 1
    /\ ~timeouts[0][1].isPressed

\* C18 as stated: every evaluation uses the threshold as it is when the
\* evaluation runs: a whole-mat frame, a grid frame, and a debounce
\* evaluation that fires.
C18_ThresholdImmediate ==
    [][/\ \A t \in FrameTotals :
             RecordFrame(t) => lastPressureState' = (t > pressureThreshold)
       /\ \A f \in FrameIds :
             HandlesFrame(f) =>
                \A r \in Regions :
                   timeouts'[r][Len(timeouts'[r])].isPressed
                      = (RegionMax[f][r] > pressureThreshold)
       /\ \A r \in Regions, i \in 1 .. MaxTimeouts :
             DebounceFire(r, i) =>
                timeouts[r][i].isPressed = (RegionMax[lastFrame][r] > pressureThreshold)]_vars

\* C18 amended: every frame handled after the change is evaluated with the
\* new threshold; a debounce evaluation fires with the determination its
\* frame computed, under the threshold in force when that frame arrived.
C18_ThresholdAtFrameTime ==
    [][/\ \A t \in FrameTotals :
             RecordFrame(t) => lastPressureState' = (t > pressureThreshold)
       /\ \A f \in FrameIds :
             HandlesFrame(f) =>
                \A r \in Regions :
                   timeouts'[r][Len(timeouts'[r])].isPressed
                      = (RegionMax[f][r] > pressureThreshold)
       /\ \A r \in Regions, i \in 1 .. MaxTimeouts :
             DebounceFire(r, i) =>
                timeouts[r][i].isPressed = (RegionMax[lastFrame][r] > frameThreshold)]_vars

\* C18 witness: a debounce evaluation has fired ON for region 0 after the
\* threshold was raised above the region's maximum in the latest frame.
C18_Witness ==
    /\ lastOp.name = "DebounceFire"
    /\ debounceEvent = OnEvent(0)
    /\ frameThreshold # pressureThreshold
    /\ ~(RegionMax[lastFrame][0] > pressureThreshold)

\* C19 as stated: in the processing of a frame every region is evaluated
\* before any timeout is scheduled, and the frame's effect on all regions
\* is one step.
FrameIsAtomic ==
    \A f \in FrameIds :
       HandlesFrame(f) =>
          /\ \A r \in Regions :
                timeouts'[r] = << [isPressed |-> RegionMax[f][r] > pressureThreshold,
                                   age |-> 0] >>
          /\ gridCellPressureState' = gridCellPressureState
          /\ debounceEvent' = NoEvent
C19_EvaluateAllThenSchedule ==
    /\ [](\A i, j \in 1 .. Len(frameLog) :
             (frameLog[i].op = "setTimeout" /\ frameLog[j].op = "evaluate") => j < i)
    /\ [][FrameIsAtomic]_vars

\* C19 amended: the regions are handled in index order, each one evaluated
\* and its timeout replaced before the next is evaluated, and the frame's
\* effect on all regions is one step.
C19_RegionByRegionInOneStep ==
    /\ [](\A i, j \in 1 .. Len(frameLog) :
             /\ i < j => frameLog[i].region <= frameLog[j].region
             /\ (frameLog[i].region = frameLog[j].region
                   /\ frameLog[i].op = "evaluate" /\ frameLog[j].op # "evaluate") => i < j)
    /\ [][FrameIsAtomic]_vars

\* C19 witness: in the frame just handled, region 0's timeout was scheduled
\* before region 1 was evaluated.
C19_Witness ==
    /\ lastOp.name = "GridFrame"
    /\ Len(frameLog) >= 4
    /\ \E i, j \in 1 .. Len(frameLog) :
          /\ i < j
          /\ frameLog[i] = [op |-> "setTimeout", region |-> 0]
          /\ frameLog[j] = [op |-> "evaluate", region |-> 1]

\* -------------------------------------------------- decoder claims
RECURSIVE Pow(_, _)
Pow(b, n) == IF n = 0 THEN 1 ELSE b * Pow(b, n - 1)
\* The number the first k characters of d denote in the radix.
Numeral(d, k, radix) ==
    SumTo([j \in 0 .. k - 1 |-> digitValue(d[j + 1], radix) * Pow(radix, k - 1 - j)], k)
ClampToByte(v) == IF v < 0 THEN 0 ELSE IF v > 255 THEN 255 ELSE v
Unsigned(t) == IF t # << >> /\ Head(t) \in {"-", "+"} THEN Tail(t) ELSE t
Signed(t, v) == IF t # << >> /\ Head(t) = "-" THEN 0 - v ELSE v

\* The integer a token is when it is numeric (an optional sign and decimal
\* digits, white space around it aside), and 0 when it is not.
TokenInteger(tok) ==
    LET t == trim(tok)
        d == Unsigned(t)
    IN IF d # << >> /\ \A i \in 1 .. Len(d) : digitValue(d[i], 10) >= 0
       THEN Signed(t, Numeral(d, Len(d), 10))
       ELSE 0

\* The integer the longest leading numeral of a token denotes (an optional
\* sign, then decimal digits or 0x and hexadecimal digits), and 0 when the
\* token starts with none.
LeadingInteger(tok) ==
    LET t == trim(tok)
        u == Unsigned(t)
        hex == Len(u) >= 2 /\ u[1] = "0" /\ u[2] \in {"x", "X"}
        radix == IF hex THEN 16 ELSE 10
        d == IF hex THEN SubSeq(u, 3, Len(u)) ELSE u
        k == CHOOSE n \in 0 .. Len(d) :
                /\ \A i \in 1 .. n : digitValue(d[i], radix) >= 0
                /\ n = Len(d) \/ digitValue(d[n + 1], radix) < 0
    IN Signed(t, Numeral(d, k, radix))

\* C20 as stated: every parsed line of exactly 100 tokens hands the
\* observer one frame whose elements are, in order, the tokens' integer
\* values clamped into 0..255, a non-numeric or empty token giving 0.
C20_FrameOfClampedIntegers ==
    \A k \in 1 .. Len(parseLog) :
       LET tokens == split(parseLog[k].line, ",")
       IN Len(tokens) = NumSensors =>
             parseLog[k].emitted
                = << [i \in 1 .. NumSensors |-> ClampToByte(TokenInteger(tokens[i]))] >>

\* C20 amended: the same, where a token's value is the integer its longest
\* leading numeral denotes, whatever follows the numeral, and 0 when the
\* token starts with no numeral.
C20_FrameOfClampedLeadingIntegers ==
    \A k \in 1 .. Len(parseLog) :
       LET tokens == split(parseLog[k].line, ",")
       IN Len(tokens) = NumSensors =>
             parseLog[k].emitted
                = << [i \in 1 .. NumSensors |-> ClampToByte(LeadingInteger(tokens[i]))] >>

\* C20 witness: a line of 100 tokens whose first token is digits followed
\* by a letter has been parsed and its frame starts with the digits' value.
C20_Witness ==
    /\ Len(parseLog) = 1
    /\ Len(split(parseLog[1].line, ",")) = NumSensors
    /\ split(parseLog[1].line, ",")[1] = << "1", "2", "a" >>
    /\ Len(parseLog[1].emitted) = 1
    /\ parseLog[1].emitted[1][1] = 12

\* C21: every complete line handed to the parser that does not split into
\* exactly 100 comma-separated tokens emits no frame, and every one that
\* does emits one frame, wherever it stands among the lines of its chunk
\* and whatever was parsed before it.
C21_MalformedDroppedDecoderContinues ==
    \A k \in 1 .. Len(parseLog) :
       IF Len(split(parseLog[k].line, ",")) = NumSensors
       THEN Len(parseLog[k].emitted) = 1
       ELSE parseLog[k].emitted = << >>

\* C21 witness: a chunk brought a malformed line and then a line of 100
\* tokens; the first emitted nothing and the second emitted its frame.
C21_Witness ==
    /\ Len(parseLog) = 2
    /\ Len(split(parseLog[1].line, ",")) # NumSensors
    /\ parseLog[1].emitted = << >>
    /\ Len(split(parseLog[2].line, ",")) = NumSensors
    /\ Len(parseLog[2].emitted) = 1
    /\ parseLog[2].emitted[1][1] = 3

\* The stream cut at its newlines, without split.
NewlinesIn(s) == {i \in 1 .. Len(s) : s[i] = "\n"}
NewlineAt(s, k) ==
    CHOOSE i \in NewlinesIn(s) : Cardinality({j \in NewlinesIn(s) : j <= i}) = k
CompleteLines(s) ==
    [k \in 1 .. Cardinality(NewlinesIn(s)) |->
        SubSeq(s, (IF k = 1 THEN 0 ELSE NewlineAt(s, k - 1)) + 1, NewlineAt(s, k) - 1)]
Fragment(s) ==
    IF NewlinesIn(s) = {} THEN s
    ELSE SubSeq(s, NewlineAt(s, Cardinality(NewlinesIn(s))) + 1, Len(s))
NonEmpty(line) == line # << >>

\* C22: when a chunk is handed over, the lines parsed are exactly the
\* non-blank lines of buffer + chunk that end in a newline, in the order
\* they stand in the stream, and the text after the last newline is held
\* back in the buffer without being parsed.
C22_FramesOnlyOfCompleteLinesInOrder ==
    [][LET text == readBuffer \o lastChunk'
           lines == CompleteLines(text)
       IN /\ readBuffer' = Fragment(text)
          /\ [k \in 1 .. Len(parseLog') |-> parseLog'[k].line]
                = SelectSeq([k \in 1 .. Len(lines) |-> trim(lines[k])], NonEmpty)]_decoderVars

\* C22 witness: half a line was held back, and the chunk that completed it
\* has just made it emit its frame.
C22_Witness ==
    /\ lastChunk = << "," >> \o HalfLine \o NewLine
    /\ readBuffer = << >>
    /\ Len(parseLog) = 1
    /\ Len(split(parseLog[1].line, ",")) = NumSensors
    /\ Len(parseLog[1].emitted) = 1

\* C22 witness of the order: one chunk brought two lines and their frames
\* were delivered first line first.
C22_WitnessOrder ==
    /\ Len(parseLog) = 2
    /\ Len(parseLog[1].emitted) = 1
    /\ Len(parseLog[2].emitted) = 1
    /\ parseLog[1].emitted[1][1] = 1
    /\ parseLog[2].emitted[1][1] = 2

\* C23: when the read of the read loop is rejected with a NetworkError,
\* the session is told the device is disconnected, the read loop returns
\* and the reader's lock is released; and whenever the read loop has
\* returned, after an error in the loop or in the pipe, the lock it took
\* is released.
C23_NetworkErrorNotifiesAndReleases ==
    /\ [][ReadRejects("NetworkError")
            => /\ statusText' = "Disconnected"
               /\ readLoop' = "returned"
               /\ ~readerLocked']_vars
    /\ [](readLoop = "returned" => ~readerLocked)

\* C23, the part the code keeps: a NetworkError in the read loop or in the
\* pipe tells the session the device is disconnected, and a rejected read
\* makes the read loop return.
C23_NetworkErrorNotifiesAndExits ==
    [][/\ (ReadRejects("NetworkError") \/ PipeRejects("NetworkError"))
            => statusText' = "Disconnected" /\ ~isConnected'
       /\ (\E error \in ReadErrors : ReadRejects(error)) => readLoop' = "returned"]_vars

\* C23: the state the NetworkError leaves: the session was told, the loop
\* has returned, the lock is still held and no reader is left to release it.
C23_LockLeft ==
    /\ statusText = "Disconnected"
    /\ readLoop = "returned"
    /\ readerLocked
    /\ reader = "null"

\* C24: disconnect() on a connected transport closes the read in flight;
\* from the call on no chunk is handed to the decoder and no frame is
\* delivered; when disconnect() completes the read loop has returned, the
\* reader's lock is released and the session was told; and disconnect(),
\* once called, completes.
C24_DisconnectCancelsRead ==
    /\ [][/\ (Disconnect /\ isConnected /\ readLoop = "awaitRead")
               => readLoop' = "cancelled"
          /\ (disconnectPc # "none" \/ disconnectPc' # "none")
               => /\ UNCHANGED decoderVars
                  /\ ~(\E data \in LinkChunks : ReceiveChunk(data))
          /\ DisconnectClosed
               => /\ readLoop' = "returned"
                  /\ ~readerLocked'
                  /\ reader' = "null"
                  /\ ~isConnected'
                  /\ statusText' = "Disconnected"]_vars
    /\ (disconnectPc # "none")
          ~> (disconnectPc = "none" /\ readLoop = "returned" /\ ~readerLocked
                /\ statusText = "Disconnected")

\* C24 witness: frames were delivered, disconnect() was called with a read
\* in flight and has completed: the loop has returned, the lock is
\* released, the session shows the device disconnected.
C24_Witness ==
    /\ frameCount >= 1
    /\ pipe = "closed"
    /\ disconnectPc = "none"
    /\ port = "null"
    /\ readLoop = "returned"
    /\ ~readerLocked
    /\ ~isConnected
    /\ statusText = "Disconnected"

\* C25: stopLoopedSampleWithEffect for a region with no registered Voice
\* returns the engine as it was, whatever the other regions play; and a
\* release that reaches the engine for such a region leaves the registry
\* and every effect's flag and connection as they were.
C25_StopWithoutVoiceIsNoOp ==
    /\ [](\A r \in Regions :
            activeLoopedSources[r] = NoVoice => stopLoopedSampleWithEffect(Eng, r) = Eng)
    /\ [][\A r \in Regions :
            (activeSampleSources[r] /\ activeLoopedSources[r] = NoVoice /\ MouseUp(r))
               => UNCHANGED engineVars]_vars

\* C25 witness: a tracked region whose Voice was gone from the registry
\* has just been released while the other region's Voice plays through an
\* active effect.
C25_Witness ==
    /\ lastOp.name = "stopNoVoice"
    /\ \E s \in Regions \ {lastOp.arg} :
          /\ activeLoopedSources[s] \in Effects
          /\ effectActive[activeLoopedSources[s]]
    /\ activeLoopedSources[lastOp.arg] = NoVoice

\* Voice starts still in flight for a region: decodes and restart timers.
InFlight(r) == SumOver([e \in EffectArgs |-> decoding[<<r, e>>]], EffectArgs) + restartTimers[r]

\* C26: a region that is released and has no voice start in flight has
\* no Voice: none registered in the engine, none tracked by the app.
C26_ReleasedRegionHasNoVoice ==
    \A r \in Regions :
       (~mousePressed[r] /\ InFlight(r) = 0)
          => activeLoopedSources[r] = NoVoice /\ ~activeSampleSources[r]

\* C26: the state the code reaches: the region is released, nothing is in
\* flight, and its Voice is registered and tracked.
C26_VoiceOutlivesRelease ==
    \E r \in Regions :
       /\ ~mousePressed[r]
       /\ InFlight(r) = 0
       /\ activeLoopedSources[r] # NoVoice
       /\ activeSampleSources[r]

\* C27: right after switchMode no Voice is registered in the engine for
\* any region, none is tracked by the app, every committed region state is
\* unpressed, and no debounce timeout is pending or tracked.
C27_SwitchModeDestroysVoices ==
    [][(lastOp'.name = "SwitchMode" /\ \E m \in Modes : SwitchMode(m))
          => \A r \in Regions :
                /\ activeLoopedSources'[r] = NoVoice
                /\ ~activeSampleSources'[r]
                /\ ~gridCellPressureState'[r]
                /\ timeouts'[r] = << >>
                /\ gridCellDebounceTimers'[r] = "null"]_vars

\* C27 witness: switchMode found Voices registered and debounce timeouts
\* pending, and has left none of either.
C27_Witness ==
    /\ lastOp.name = "SwitchMode"
    /\ lastOp.voice = "voices and timers"
    /\ \A r \in Regions : activeLoopedSources[r] = NoVoice /\ timeouts[r] = << >>

Running == {i \in 1 .. Len(captures) : captures[i].recorder = "recording"}

\* C28: at most one recorder is recording at any time, and while one is
\* recording no step creates another recorder, replaces the engine's
\* recorder or replaces the promise the app holds.
C28_OneCaptureInFlight ==
    /\ [](Cardinality(Running) <= 1)
    /\ [][Running # {}
            => /\ Len(captures') = Len(captures)
               /\ performanceRecorder' = performanceRecorder
               /\ performanceRecordingPromise' = performanceRecordingPromise]_vars

\* C28: the state the code reaches: two recorders record at once, the
\* engine and the app hold the second, and nothing refers to the first.
C28_TwoCaptures ==
    /\ Running = {1, 2}
    /\ performanceRecorder = 2
    /\ performanceRecordingPromise = 2

\* C29: the promise of a capture is pending while its recorder records; it
\* is resolved only after its recorder was stopped, once, with one blob;
\* no step of a Voice (press, release, completed start) changes a recorder
\* or a promise; and a stop that awaits a promise gets it resolved.
C29_ResultResolvesOnceAfterStop ==
    /\ [](\A i \in 1 .. Len(captures) :
            /\ captures[i].recorder = "recording" => captures[i].promise = "pending"
            /\ captures[i].promise = "resolved"
                  => captures[i].recorder = "inactive" /\ captures[i].blobs = 1)
    /\ [][/\ \A i \in 1 .. Len(captures) :
               /\ (captures[i].promise = "pending" /\ captures'[i].promise = "resolved")
                     => captures[i].recorder = "inactive"
               /\ captures[i].promise = "resolved" => captures'[i] = captures[i]
          /\ lastOp'.name # "perf" => UNCHANGED perfVars]_vars
    /\ \A i \in 1 .. MaxCaptures :
          (i \in perfStops)
             ~> (/\ i \notin perfStops
                 /\ i <= Len(captures)
                 /\ captures[i].promise = "resolved"
                 /\ performanceRecordingBlob = i)

\* C29 witness: a Voice was registered and has just been released while
\* the capture runs: the recorder still records and the promise the app
\* holds is still pending.
C29_Witness ==
    /\ lastOp.name = "stop"
    /\ isPerformanceRecording
    /\ performanceRecordingPromise = 1
    /\ captures[1].recorder = "recording"
    /\ captures[1].promise = "pending"

\* C29 witness of the end: the capture was stopped, its promise is resolved
\* with one blob and the app holds the blob.
C29_WitnessResolved ==
    /\ ~isPerformanceRecording
    /\ performanceRecordingBlob = 1
    /\ captures[1].promise = "resolved"
    /\ captures[1].blobs = 1
    /\ \E r \in Regions : activeLoopedSources[r] # NoVoice

UnknownIds(effectName, paramId) == paramId \notin Params(effectName)

\* C30: setEffectParameter with an effect name it does not know, or with a
\* parameter id the effect does not have, returns false and leaves every
\* parameter as it was; getEffectParameter with such names returns 0.
C30_UnknownIdentifiersRejected ==
    [][/\ (paramResult'.op = "set" /\ UnknownIds(paramResult'.effect, paramResult'.param)
            /\ SetEffectParameter(paramResult'.effect, paramResult'.param, paramResult'.value))
          => ~paramResult'.ok /\ effectParams' = effectParams
       /\ (paramResult'.op = "get" /\ UnknownIds(paramResult'.effect, paramResult'.param)
            /\ GetEffectParameter(paramResult'.effect, paramResult'.param))
          => paramResult'.value = 0]_vars

\* C30, the part the code keeps: with such names setEffectParameter leaves
\* every parameter as it was and returns false when the effect is not
\* known, and getEffectParameter returns 0.
C30_UnknownIdentifiersChangeNothing ==
    [][/\ (paramResult'.op = "set" /\ UnknownIds(paramResult'.effect, paramResult'.param)
            /\ SetEffectParameter(paramResult'.effect, paramResult'.param, paramResult'.value))
          => /\ effectParams' = effectParams
             /\ paramResult'.effect \notin Effects => ~paramResult'.ok
       /\ (paramResult'.op = "get" /\ UnknownIds(paramResult'.effect, paramResult'.param)
            /\ GetEffectParameter(paramResult'.effect, paramResult'.param))
          => paramResult'.value = 0]_vars

\* C30: the state the code reaches: a known effect was given a parameter
\* id it does not have and the call returned true.
C30_UnknownParameterAccepted ==
    /\ paramResult.op = "set"
    /\ paramResult.effect \in Effects
    /\ paramResult.param \notin Params(paramResult.effect)
    /\ paramResult.ok

\* C31: when the restart that toggleEffects scheduled for a region comes
\* due, a region that is still pressed and has no Voice gets a start with
\* its cell's effect when effects are enabled and dry when they are not,
\* and a region that was released in the meantime gets no start, so that
\* it ends with no Voice.
C31_ToggleRecreatesPressedOnly ==
    [][\A r \in Regions :
          (restartTimers[r] > 0 /\ RestartTimerFire(r))
             => IF mousePressed[r]
                THEN activeSampleSources[r]
                        \/ decoding'[<<r, effectArg(r)>>] = decoding[<<r, effectArg(r)>>] + 1
                ELSE decoding' = decoding]_vars

\* C31, the part the code keeps: the restart of a region that is not
\* tracked as playing asks for a start with the routing in force when the
\* restart comes due.
C31_RestartUsesCurrentRouting ==
    [][\A r \in Regions :
          (restartTimers[r] > 0 /\ RestartTimerFire(r) /\ ~activeSampleSources[r])
             => decoding'[<<r, effectArg(r)>>] = decoding[<<r, effectArg(r)>>] + 1]_vars

\* C32: when the rest of stopRecording runs, the sample list grows by
\* exactly one when a blob arrived with more than 100 bytes and a duration
\* of more than 0.1 s, and stays as it was with no blob, a blob of at most
\* 100 bytes, a duration of at most 0.1 s or a rejected stop; the call of
\* stopRecording that began it set recordingState to idle, and its
\* completion does not change recordingState.
C32_SampleOnlyForAudibleBlob ==
    [][/\ \A k \in StopKinds, b \in 0 .. Len(TestBlobs) :
            (lastOp'.name = "StopRecordingDone" /\ lastOp'.arg = b /\ StopRecordingDone(k, b))
               => /\ samples' = samples
                               + (IF /\ k = "blob"
                                     /\ TestBlobs[b].error # "stop"
                                     /\ TestBlobs[b].size > 100
                                     /\ TestBlobs[b].duration > 100
                                  THEN 1 ELSE 0)
                  /\ recordingState' = recordingState
       /\ SumOver(stopCalls', StopKinds) > SumOver(stopCalls, StopKinds)
            => recordingState = "recording" /\ recordingState' = "idle"]_vars

\* C32 witness: a blob of 101 bytes and 0.101 s has just arrived and the
\* list holds its sample, with recordingState idle.
C32_Witness ==
    /\ lastOp.name = "StopRecordingDone"
    /\ lastOp.arg = 1
    /\ samples = 1
    /\ recordingState = "idle"

\* C32 witness of the other side: a blob of 101 bytes lasting exactly
\* 0.1 s has just arrived and no sample was added.
C32_WitnessTooShort ==
    /\ lastOp.name = "StopRecordingDone"
    /\ lastOp.arg = 3
    /\ samples = 0
    /\ recordingState = "idle"

\* C33: a start that fails leaves the machine idle. With no microphone
\* selected no step takes recordingState out of idle or puts a new start
\* in flight, and a start asked for by the button changes neither the
\* cooldown nor ready; when the device capture of a start in flight
\* fails, recordingState is idle afterwards and the cooldown and ready are
\* as they were.
C33_FailedStartReturnsToIdle ==
    [][/\ (~micSelected /\ recordingState = "idle")
            => /\ recordingState' = "idle"
               /\ startCalls' <= startCalls
               /\ lastOp'.name = "ManualRecordToggle"
                     => /\ isRecordingOnCooldown' = isRecordingOnCooldown
                        /\ recordingReady' = recordingReady
       /\ (lastOp'.name = "StartRecordingDone" /\ lastOp'.arg = 0)
            => /\ recordingState' = "idle"
               /\ isRecordingOnCooldown' = isRecordingOnCooldown
               /\ recordingReady' = recordingReady]_vars

\* C33 witness: the capture of a start in flight has just failed while
\* recordingState was recording, and the machine is idle off cooldown.
C33_Witness ==
    /\ lastOp.name = "StartRecordingDone"
    /\ lastOp.arg = 0
    /\ lastOp.rs = "recording"
    /\ recordingState = "idle"
    /\ ~isRecordingOnCooldown

\* C33 witness of the other case: the button was clicked from idle, off
\* cooldown, with no microphone selected, and nothing started.
C33_WitnessNoMicrophone ==
    /\ lastOp.name = "ManualRecordToggle"
    /\ lastOp.rs = "idle"
    /\ ~lastOp.cd
    /\ ~micSelected
    /\ recordingState = "idle"
    /\ startCalls = 0

\* C34: whenever recordingState is idle and no startRecording call is
\* still awaiting the device, the engine's microphone recorder is not
\* recording.
C34_IdleMeansRecorderStopped ==
    (recordingState = "idle" /\ startCalls = 0) => mediaRecorder # "recording"

\* C34, apart from a stop that overtakes a start: a call of stopRecording
\* made when no start is in flight leaves the engine's recorder not
\* recording.
C34_StopWithoutStartInFlightStopsRecorder ==
    [][(startCalls = 0 /\ SumOver(stopCalls', StopKinds) > SumOver(stopCalls, StopKinds))
          => mediaRecorder' # "recording"]_vars

\* C35: no Voice exists while the current mode is RECORD.
C35_NoVoiceInRecordMode ==
    currentMode = "RECORD" => \A r \in Regions : activeLoopedSources[r] = NoVoice

\* C35, at the switch itself: right after switchMode no Voice exists in
\* either mode.
C35_NoVoiceRightAfterSwitch ==
    lastOp.name = "SwitchMode" => \A r \in Regions : activeLoopedSources[r] = NoVoice

\* C36: a cooldown timeout scheduled for an earlier stop never clears the
\* onCooldown flag that a later stop has set.
C36_OnlyOwnTimerEndsCooldown ==
    [][(/\ cooldownTimers' < cooldownTimers
        /\ timerOwners # << >>
        /\ Head(timerOwners) = "earlier"
        /\ isRecordingOnCooldown)
          => isRecordingOnCooldown']_vars

\* C36, without a mode switch in between: the flag set by a stop stays set
\* until a cooldown timeout fires or switchMode resets the machine.
C36_CooldownEndsByTimerOrSwitch ==
    [][(isRecordingOnCooldown /\ ~isRecordingOnCooldown')
          => lastOp'.name \in {"CooldownTimerFire", "SwitchMode"}]_vars

\* C37: after every stopRecording that took recordingState from recording
\* to idle (the only place that sets onCooldown), onCooldown eventually
\* becomes false again, whatever the stop finds: a sample, a blob too
\* short or too small, no blob, or an error.
C37_CooldownEventuallyEnds ==
    isRecordingOnCooldown ~> ~isRecordingOnCooldown

\* C37 witness: a cooldown timeout has just ended a cooldown.
C37_Witness ==
    /\ lastOp.name = "CooldownTimerFire"
    /\ lastOp.cd
    /\ ~isRecordingOnCooldown

\* C37 witness of the error path: the engine's stop was rejected, the
\* machine is on cooldown and the timeout of the finally block is pending.
C37_WitnessError ==
    /\ lastOp.name = "StopRecordingDone"
    /\ lastOp.arg = 5
    /\ isRecordingOnCooldown
    /\ timerOwners = << "latest" >>

Settled ==
    \A r \in Regions :
       gridCellPressureState[r] = (RegionMax[lastFrame][r] > frameThreshold)

\* The last frame has arrived: the step just taken is no frame, and since
\* the last frame there was no mode switch.
FramesStopped == settle.quiet /\ lastOp.name # "GridFrame"

\* C39: if from some frame on nothing but the passing of time, timeouts
\* and decodes happens in PERFORM mode, every region's committed state
\* eventually equals, and then stays, the pressed determination of the
\* last frame, and no region has more than one transition after that
\* frame.
C39_SettlesOnLastFrame ==
    /\ [](settle.quiet => \A r \in Regions : settle.events[r] <= 1)
    /\ (<>[]FramesStopped) => <>[]Settled

\* C39 witness: a full window after the last frame, with no timeout left,
\* region 0 has made its one transition and every region is settled.
C39_Witness ==
    /\ settle.quiet
    /\ sinceFrame = pressureDebounceMs
    /\ \A r \in Regions : timeouts[r] = << >>
    /\ settle.events[0] = 1
    /\ gridCellPressureState[0]
    /\ Settled

\* The frames of a sequence of parse calls, in order.
RECURSIVE FramesOf(_)
FramesOf(log) ==
    IF log = << >> THEN << >> ELSE Head(log).emitted \o FramesOf(Tail(log))

\* C40: however the text received so far was cut into chunks, the frames
\* emitted for it, in order, and the fragment held back are those of the
\* same text handed over as one chunk.
C40_ChunkingDoesNotMatter ==
    stream.on =>
       \E whole \in {processIncomingData(<< >>, stream.fed)} :
          /\ FramesOf(stream.emitted) = FramesOf(whole.log)
          /\ readBuffer = whole.buffer

\* C40 witness: a frame line arrived in three chunks, cut inside a token
\* and just before its newline, and its one frame was emitted, the 255
\* whole.
C40_Witness ==
    /\ stream.on
    /\ stream.n = 3
    /\ stream.fed = CutLine \o NewLine
    /\ lastChunk = NewLine
    /\ Len(FramesOf(stream.emitted)) = 1
    /\ FramesOf(stream.emitted)[1][76] = 255
    /\ readBuffer = << >>

====
